---------------------------- MODULE Spec2Model ----------------------------
(***************************************************************************)
(* A model of the two heuristic engines of the retail demo application:    *)
(*   - DiscountRecommendationService (the discount engine): training data, *)
(*     batch generation of recommendations, the approve / reject workflow  *)
(*     and its queries;                                                    *)
(*   - ChatbotService (the conversation engine): analyzeIntent, the        *)
(*     classifier, generateResponse and the session it keeps;              *)
(*   - the ChatBot component's send / delayed reply cycle;                 *)
(*   - the ingestion of training batches (Home.handleDataUpload and        *)
(*     UserTrainingService).                                               *)
(*                                                                         *)
(* Numbers.  JavaScript numbers are modelled as exact decimals:            *)
(*   - money is kept in units of 1/10000 dollar (E4), so that              *)
(*     currentPrice * (1 - d/100) of a whole-cent price is an integer;     *)
(*   - percentages with one decimal are kept in tenths of a percent;       *)
(*   - a waste rate is a fraction [num, den] of integers (percent).        *)
(* Math.round(x) is floor(x + 1/2).                                        *)
(* The display-only fields of a recommendation (reasoning, location) and   *)
(* the owner's notes of a decision are not represented.                    *)
(* Time.  Calls are made one after the other from UI event handlers; the   *)
(* timestamp new Date() gives is represented by the position of the call:  *)
(* the number of the batch for a recommendation, the number of the         *)
(* decision call for a decision.                                           *)
(***************************************************************************)
EXTENDS Integers, Sequences, FiniteSets, TLC

VARIABLES
    recommendations,   \* DiscountRecommendationService.recommendations
    decisions,         \* DiscountRecommendationService.decisions
    trainedModelData,  \* the trained-model marker: TRUE when a (truthy) object is set
    userTrainingData,  \* the raw training records
    idCounter,         \* number of recommendation ids handed out so far
    generations,       \* number of successful generate calls
    decisionCalls,     \* approve / reject calls made since the last clear
    lastCall,          \* the last generate / approve / reject call: arguments, outcome
    calcInput,         \* the arguments of a call of one of the pure functions
    calcOutput,        \* what that call returned
    conversationMemory,\* ChatbotService.conversationMemory
    analysisInput,     \* the arguments of the last analyzeIntent call
    analysis,          \* what the last analyzeIntent call returned
    conversationHistory, \* ChatbotService.conversationHistory
    totalMessages,     \* ChatbotService.userEngagement.totalMessages
    response,          \* what the last generateResponse call returned
    messages,          \* ChatBot: the messages state
    timers,            \* ChatBot: the completions scheduled by setTimeout, not yet run
    conversationContext, \* ChatBot: the conversationContext state
    isTyping,          \* ChatBot: the isTyping state
    trainingData,      \* UserTrainingService.trainingData
    validationErrors,  \* Home: the validationErrors state
    uploaded,          \* the batch of the last handleDataUpload call
    uploadedData,      \* DataUploader: the uploadedData state (the rows shown)
    activeTab,         \* DataTraining: the activeTab state
    trainingComplete,  \* DataTraining: the trainingComplete state
    isTraining,        \* DataTraining: the isTraining state (trainModel is pending)
    switchTimers       \* DataTraining: the auto-switch timers set, not yet run

engineVars == << recommendations, decisions, trainedModelData, userTrainingData,
                 idCounter, generations, decisionCalls, lastCall >>
calcVars == << calcInput, calcOutput >>
chatVars == << conversationMemory, analysisInput, analysis, conversationHistory,
               totalMessages, response >>
widgetVars == << messages, timers, conversationContext, isTyping >>
trainingVars == << trainingData, validationErrors, uploaded >>
pageVars == << uploadedData, activeTab, trainingComplete, isTraining, switchTimers >>

vars == << engineVars, calcVars, chatVars, widgetVars, trainingVars, pageVars >>

---------------------------------------------------------------------------
(* Bounds of the model *)

\* the number of generate / approve / reject calls of a run (since a clear)
MaxCalls == 3

\* the number of generateResponse calls of a conversation
MaxMessages == 3

\* the number of generateResponse calls of a long conversation
MaxHistory == 6

\* the number of messages sent from the ChatBot component
MaxSends == 3

\* uploads are made while the training set has fewer records than this
MaxRecords == 2

\* trainings are started while fewer auto-switch timers than this are set
MaxTimers == 2

---------------------------------------------------------------------------
(* Arithmetic helpers *)

Min(a, b) == IF a <= b THEN a ELSE b
Max(a, b) == IF a >= b THEN a ELSE b

\* Math.round(a / b) for a >= 0, b > 0: floor(a/b + 1/2)
RoundDiv(a, b) == (2 * a + b) \div (2 * b)

RECURSIVE GCD(_, _)
GCD(a, b) == IF b = 0 THEN a ELSE GCD(b, a % b)

\* the fraction num / den (num >= 0, den > 0) in lowest terms
Frac(num, den) ==
    LET g == GCD(num, den) IN [ num |-> num \div g, den |-> den \div g ]

\* the fraction f times tenths / 10
Times(f, tenths) == Frac(f.num * tenths, f.den * 10)

\* the optional argument that was not passed
Undefined == 0 - 1

\* JavaScript truthiness of an optional number: undefined and 0 are falsy
Truthy(x) == x # Undefined /\ x # 0

\* a || b
OrElse(a, b) == IF Truthy(a) THEN a ELSE b

RECURSIVE SumOver(_, _)
SumOver(s, field) ==
    IF s = << >> THEN 0 ELSE Head(s)[field] + SumOver(Tail(s), field)

\* Math.round(x * 100) / 100 of an amount x given in E4 units (100 E4 = 1 cent)
RoundToCents(x) == RoundDiv(x, 100) * 100

---------------------------------------------------------------------------
(* Training records and the simulated inventory *)

\* String.prototype.toLowerCase on the product and category names in use
ToLowerCase(s) ==
    CASE s = "Milk"   -> "milk"
      [] s = "Bread"  -> "bread"
      [] s = "Rice"   -> "rice"
      [] s = "Dairy"  -> "dairy"
      [] s = "Bakery" -> "bakery"
      [] s = "Pantry" -> "pantry"
      [] OTHER        -> s

TrainingRecord(name, cat, stock, waste, temp, hum) ==
    [ productName |-> name, category |-> cat, initialStock |-> stock,
      wasteAmount |-> waste, temperature |-> temp, humidity |-> hum ]

\* The uploaded data sets a session may hold: none, or three products with a
\* historical waste rate of 6 % (Bread), 2 % (Rice, two spellings) and 20 %
\* (Milk, two rows with different storage conditions).
TrainingSets ==
    { << >>,
      << TrainingRecord("Bread", "Bakery", 50, 3, 20, 50),
         TrainingRecord("Rice", "Pantry", 100, 2, 20, 40),
         TrainingRecord("Milk", "Dairy", 60, 10, 10, 70),
         TrainingRecord("rice", "Pantry", 100, 2, 20, 40),
         TrainingRecord("Milk", "Dairy", 40, 10, 2, 40) >> }

\* One draw of the random inventory scenario of a product: the stock
\* (20..99), the hours until expiry (6..77), the price in cents (200..1700)
\* and the deviation of temperature and humidity from the product's record.
Scenario(stock, hours, cents, dTemp, dHum) ==
    [ currentStock |-> stock, hoursUntilExpiry |-> hours, priceCents |-> cents,
      dTemp |-> dTemp, dHum |-> dHum ]

ScenarioSamples ==
    { Scenario(60, 6, 999, 0, 0),
      Scenario(20, 77, 250, 4, 9) }

---------------------------------------------------------------------------
(* The prediction arithmetic *)

\* analyzeHistoricalWastePattern: exact (case-insensitive) name matches, else
\* category matches; the waste rate in percent is the fraction num / den.
analyzeHistoricalWastePattern(data, productName, category) ==
    LET exactMatches ==
            SelectSeq(data, LAMBDA d :
                ToLowerCase(d.productName) = ToLowerCase(productName))
        categoryMatches ==
            SelectSeq(data, LAMBDA d :
                ToLowerCase(d.category) = ToLowerCase(category))
        relevantData ==
            IF Len(exactMatches) > 0 THEN exactMatches ELSE categoryMatches
        totalInitialStock == SumOver(relevantData, "initialStock")
        totalWaste == SumOver(relevantData, "wasteAmount")
    IN  IF Len(relevantData) = 0
        THEN [ wasteRate |-> Frac(0, 1), dataPoints |-> 0,
               sumTemp |-> 0, sumHumidity |-> 0 ]
        ELSE [ wasteRate |-> IF totalInitialStock > 0
                             THEN Frac(totalWaste * 100, totalInitialStock)
                             ELSE Frac(0, 1),
               dataPoints |-> Len(relevantData),
               sumTemp |-> SumOver(relevantData, "temperature"),
               sumHumidity |-> SumOver(relevantData, "humidity") ]

\* The multiplier, in tenths, for the time until expiry (hours / 24 days)
ExpiryFactor(hoursUntilExpiry) ==
    IF hoursUntilExpiry <= 24 THEN 20
    ELSE IF hoursUntilExpiry <= 48 THEN 15
    ELSE IF hoursUntilExpiry <= 72 THEN 12
    ELSE 10

\* The multiplier, in tenths, for the stock level
StockFactor(currentStock) ==
    IF currentStock > 50 THEN 11
    ELSE IF currentStock > 100 THEN 12
    ELSE 10

\* calculatePredictedWaste; conditions are the current temperature and
\* humidity.  avgTemp = sumTemp / dataPoints, so temperature > avgTemp + 5
\* is temperature * dataPoints > sumTemp + 5 * dataPoints.
calculatePredictedWaste(currentStock, hoursUntilExpiry, pattern, temperature, humidity) ==
    LET tempFactor ==
            IF temperature * pattern.dataPoints
                   > pattern.sumTemp + 5 * pattern.dataPoints THEN 13 ELSE 10
        humFactor ==
            IF humidity * pattern.dataPoints
                   > pattern.sumHumidity + 10 * pattern.dataPoints THEN 12 ELSE 10
        baseWasteRate ==
            Times(Times(Times(Times(pattern.wasteRate,
                                    ExpiryFactor(hoursUntilExpiry)),
                              tempFactor),
                        humFactor),
                  StockFactor(currentStock))
        \* Math.min(100, Math.max(0, baseWasteRate))
        final == IF baseWasteRate.num > 100 * baseWasteRate.den
                 THEN Frac(100, 1) ELSE baseWasteRate
        confidence ==
            Min(95, 50 + Min(30, pattern.dataPoints * 5)
                       + (IF hoursUntilExpiry <= 24 THEN 15 ELSE 0))
    IN  [ wasteAmount |-> RoundDiv(final.num * currentStock, final.den * 100),
          wastePercentage |-> RoundDiv(final.num * 10, final.den),   \* in tenths of a percent
          confidence |-> confidence ]

\* a variant of the ladder whose boundaries belong to the step below
OpenBaseDiscount(wastePercentage) ==
    IF wastePercentage > 600 THEN 50
    ELSE IF wastePercentage > 400 THEN 35
    ELSE IF wastePercentage > 250 THEN 25
    ELSE IF wastePercentage > 150 THEN 15
    ELSE 10

\* The base discount of the waste-percentage ladder (percentage in tenths)
BaseDiscount(wastePercentage) ==
    IF wastePercentage >= 600 THEN 50
    ELSE IF wastePercentage >= 400 THEN 35
    ELSE IF wastePercentage >= 250 THEN 25
    ELSE IF wastePercentage >= 150 THEN 15
    ELSE 10

\* The urgency multiplier, in tenths
UrgencyFactor(hoursUntilExpiry) ==
    IF hoursUntilExpiry <= 6 THEN 14
    ELSE IF hoursUntilExpiry <= 12 THEN 12
    ELSE IF hoursUntilExpiry <= 24 THEN 11
    ELSE 10

\* a variant without the clamp
NoClamp(x) == x

\* Math.min(70, Math.max(5, Math.round(x)))
ClampDiscount(x) == Min(70, Max(5, x))

\* calculateOptimalDiscount (wastePercentage in tenths of a percent)
calculateOptimalDiscount(wastePercentage, hoursUntilExpiry, dataPoints) ==
    LET historyFactor == IF dataPoints >= 5 THEN 11 ELSE 10
        scaled == BaseDiscount(wastePercentage) * UrgencyFactor(hoursUntilExpiry)
                      * historyFactor
    IN  ClampDiscount(RoundDiv(scaled, 100))

getRiskLevel(wastePercentage) ==
    IF wastePercentage >= 500 THEN "critical"
    ELSE IF wastePercentage >= 300 THEN "high"
    ELSE IF wastePercentage >= 150 THEN "medium"
    ELSE "low"

---------------------------------------------------------------------------
(* Batch generation *)

RECURSIVE Dedupe(_, _)
\* [...new Set(names)]: the distinct names in order of first occurrence
Dedupe(names, seen) ==
    IF names = << >> THEN << >>
    ELSE IF Head(names) \in seen THEN Dedupe(Tail(names), seen)
    ELSE << Head(names) >> \o Dedupe(Tail(names), seen \cup { Head(names) })

uniqueProducts(data) ==
    Dedupe([ i \in 1..Len(data) |-> data[i].productName ], { })

\* Array.prototype.find: the first record of the product (exact spelling)
FindProduct(data, productName) ==
    LET idx == { i \in 1..Len(data) : data[i].productName = productName }
    IN  data[CHOOSE i \in idx : \A j \in idx : i <= j]

\* a variant that asks for historical data only
HasHistory(pattern, prediction, hoursUntilExpiry) == pattern.dataPoints > 0

\* the two filters of the forEach body: historical data with a waste rate over
\* 5 %, and a predicted waste over 10 % or at most 24 hours left
WorthRecommending(pattern, prediction, hoursUntilExpiry) ==
    /\ pattern.dataPoints > 0
    /\ pattern.wasteRate.num > 5 * pattern.wasteRate.den
    /\ (prediction.wastePercentage > 100 \/ hoursUntilExpiry <= 24)

\* The recommendation of one product under one inventory scenario, as a
\* sequence of zero or one records (the two filters of the forEach body).
RecommendationFor(data, productName, sc, id, time) ==
    LET productData == FindProduct(data, productName)
        pattern == analyzeHistoricalWastePattern(data, productName, productData.category)
        prediction ==
            calculatePredictedWaste(sc.currentStock, sc.hoursUntilExpiry, pattern,
                                    productData.temperature + sc.dTemp,
                                    productData.humidity + sc.dHum)
        suggestedDiscount ==
            calculateOptimalDiscount(prediction.wastePercentage, sc.hoursUntilExpiry,
                                     pattern.dataPoints)
        \* currentPrice * (1 - suggestedDiscount / 100), in E4
        discountedPrice == sc.priceCents * (100 - suggestedDiscount)
        estimatedRevenueSaved == prediction.wasteAmount * discountedPrice
    IN  IF WorthRecommending(pattern, prediction, sc.hoursUntilExpiry)
        THEN << [ id |-> id,
                  productName |-> productName,
                  category |-> productData.category,
                  currentStock |-> sc.currentStock,
                  hoursUntilExpiry |-> sc.hoursUntilExpiry,
                  predictedWasteAmount |-> prediction.wasteAmount,
                  predictedWastePercentage |-> prediction.wastePercentage,
                  suggestedDiscountPercentage |-> suggestedDiscount,
                  estimatedRevenueSaved |-> RoundToCents(estimatedRevenueSaved),
                  confidence |-> prediction.confidence,
                  riskLevel |-> getRiskLevel(prediction.wastePercentage),
                  currentPrice |-> sc.priceCents * 100,
                  discountedPrice |-> RoundToCents(discountedPrice),
                  status |-> "pending",
                  timestamp |-> time,
                  basedOnDataPoints |-> pattern.dataPoints,
                  historicalWasteRate |-> RoundDiv(pattern.wasteRate.num * 10, pattern.wasteRate.den)
                ] >>
        ELSE << >>

RECURSIVE BuildBatch(_, _, _, _, _, _)
\* The forEach over the unique products: product i draws scenario scen[i];
\* every recommendation pushed gets a fresh id.
BuildBatch(data, products, scen, i, firstId, time) ==
    IF i > Len(products) THEN << >>
    ELSE LET one == RecommendationFor(data, products[i], scen[i], firstId, time)
         IN  one \o BuildBatch(data, products, scen, i + 1, firstId + Len(one), time)

\* urgency = (predictedWastePercentage / 100) * (72 - hoursUntilExpiry) / 72,
\* scaled by the positive constant 72000
Urgency(r) == r.predictedWastePercentage * (72 - r.hoursUntilExpiry)

RECURSIVE InsertDescending(_, _)
\* the pair p put behind every pair whose key is not smaller (a stable sort
\* step)
InsertDescending(sorted, p) ==
    IF sorted = << >> THEN << p >>
    ELSE IF p.key > Head(sorted).key THEN << p >> \o sorted
    ELSE << Head(sorted) >> \o InsertDescending(Tail(sorted), p)

RECURSIVE SortDescending(_)
\* Array.prototype.sort (stable) with the comparator (a, b) => key(b) - key(a),
\* on pairs of a key and an item
SortDescending(pairs) ==
    IF pairs = << >> THEN << >>
    ELSE InsertDescending(SortDescending(SubSeq(pairs, 1, Len(pairs) - 1)),
                          pairs[Len(pairs)])

Items(pairs) == [ i \in 1..Len(pairs) |-> pairs[i].item ]

\* newRecommendations.sort((a, b) => urgencyB - urgencyA)
SortByUrgency(recs) ==
    Items(SortDescending([ i \in 1..Len(recs) |->
                             [ key |-> Urgency(recs[i]), item |-> recs[i] ] ]))

\* sort((a, b) => b.timestamp.getTime() - a.timestamp.getTime())
SortNewestFirst(s) ==
    Items(SortDescending([ i \in 1..Len(s) |->
                             [ key |-> s[i].timestamp, item |-> s[i] ] ]))

\* the list kept when a new batch replaces the pending recommendations
\* a variant that keeps the pending ones too
KeepAll(recs) == recs

\* this.recommendations.filter(r => r.status !== 'pending')
KeepDecided(recs) == SelectSeq(recs, LAMBDA r : r.status # "pending")

---------------------------------------------------------------------------
(* The discount engine: state and operations *)

\* the override of an approve call: none, 0 (the value of the empty input), a
\* value inside the range of computed discounts and one below it
OverrideSamples == { Undefined, 0, 2, 40 }

\* ids that match no recommendation (those issued start at 1)
UnknownIds == { 0 }

\* the ids a caller may pass: those of the stored recommendations, or another
CallIds == { recommendations[i].id : i \in 1..Len(recommendations) } \cup UnknownIds

Call(op, id, actualDiscount, threw) ==
    [ op |-> op, id |-> id, actualDiscount |-> actualDiscount, threw |-> threw ]

\* Array.prototype.find by id: the index of the first match, 0 when none
FindIndex(recs, recommendationId) ==
    LET idx == { i \in 1..Len(recs) : recs[i].id = recommendationId }
    IN  IF idx = { } THEN 0 ELSE CHOOSE i \in idx : \A j \in idx : i <= j

EngineInit ==
    /\ recommendations = << >>
    /\ decisions = << >>
    /\ trainedModelData = FALSE
    /\ userTrainingData = << >>
    /\ idCounter = 0
    /\ generations = 0
    /\ decisionCalls = 0
    /\ lastCall = Call("none", Undefined, Undefined, FALSE)

setTrainedModelData(modelData, rawTrainingData) ==
    /\ trainedModelData' = modelData
    /\ userTrainingData' = rawTrainingData
    /\ UNCHANGED lastCall
    /\ UNCHANGED << recommendations, decisions, idCounter, generations,
                    decisionCalls >>
    /\ UNCHANGED << calcVars, chatVars, widgetVars, trainingVars, pageVars >>

\* a variant that asks for the marker only
HasModelData == trainedModelData

\* the precondition of generateRecommendationsFromTrainingData
CanGenerate == trainedModelData /\ Len(userTrainingData) # 0

\* the call throws: nothing but the outcome changes
generateThrows ==
    /\ ~ CanGenerate
    /\ lastCall' = Call("generate", Undefined, Undefined, TRUE)
    /\ UNCHANGED << recommendations, decisions, trainedModelData, userTrainingData,
                    idCounter, generations, decisionCalls >>
    /\ UNCHANGED << calcVars, chatVars, widgetVars, trainingVars, pageVars >>

\* the list stored by a successful generation
StoreBatch(recs, newRecommendations) == KeepDecided(recs) \o newRecommendations

generateSucceeds ==
    /\ CanGenerate
    /\ generations + decisionCalls < MaxCalls
    /\ LET products == uniqueProducts(userTrainingData)
       IN  \E scen \in [ 1..Len(products) -> ScenarioSamples ] :
             LET newRecommendations ==
                     SortByUrgency(BuildBatch(userTrainingData, products, scen, 1,
                                              idCounter + 1, generations))
             IN  /\ recommendations' = StoreBatch(recommendations, newRecommendations)
                 /\ idCounter' = idCounter + Len(newRecommendations)
    /\ generations' = generations + 1
    /\ lastCall' = Call("generate", Undefined, Undefined, FALSE)
    /\ UNCHANGED << decisions, trainedModelData, userTrainingData, decisionCalls >>
    /\ UNCHANGED << calcVars, chatVars, widgetVars, trainingVars, pageVars >>

generateRecommendationsFromTrainingData == generateThrows \/ generateSucceeds

\* the recommendation as approveRecommendation leaves it
Approved(r, actualDiscount) ==
    IF Truthy(actualDiscount)
    THEN LET discountedPrice == (r.currentPrice \div 100) * (100 - actualDiscount)
         IN  [ r EXCEPT !.status = "approved",
                        !.suggestedDiscountPercentage = actualDiscount,
                        !.discountedPrice = discountedPrice,
                        !.estimatedRevenueSaved = r.predictedWasteAmount * discountedPrice ]
    ELSE [ r EXCEPT !.status = "approved" ]

\* a variant that also takes the discount back
RejectedAndReset(r) ==
    [ r EXCEPT !.status = "rejected", !.suggestedDiscountPercentage = 0,
               !.discountedPrice = r.currentPrice ]

\* the recommendation as rejectRecommendation leaves it
Rejected(r) == [ r EXCEPT !.status = "rejected" ]

\* actualDiscount || recommendation?.suggestedDiscountPercentage
AppliedDiscount(recs, i, actualDiscount) ==
    OrElse(actualDiscount,
           IF i = 0 THEN Undefined ELSE recs[i].suggestedDiscountPercentage)

Decision(recommendationId, decision, actualDiscountApplied, time) ==
    [ recommendationId |-> recommendationId, decision |-> decision,
      actualDiscountApplied |-> actualDiscountApplied, timestamp |-> time ]

\* a variant that keeps one record per recommendation and decision
PushDecisionOnce(decs, decision) ==
    IF \E k \in 1..Len(decs) :
           /\ decs[k].recommendationId = decision.recommendationId
           /\ decs[k].decision = decision.decision
    THEN decs
    ELSE Append(decs, decision)

\* this.decisions.push(decision)
PushDecision(decs, decision) == Append(decs, decision)

\* a variant that returns early, recording nothing, when no recommendation
\* has the id
approveKnownOnly(recommendationId, actualDiscount) ==
    /\ generations + decisionCalls < MaxCalls
    /\ LET i == FindIndex(recommendations, recommendationId)
       IN  IF i = 0
           THEN UNCHANGED << recommendations, decisions >>
           ELSE /\ recommendations' =
                       [ recommendations EXCEPT
                           ![i] = Approved(recommendations[i], actualDiscount) ]
                /\ decisions' =
                       PushDecision(decisions,
                                    Decision(recommendationId, "approved",
                                             AppliedDiscount(recommendations', i,
                                                             actualDiscount),
                                             decisionCalls))
    /\ decisionCalls' = decisionCalls + 1
    /\ lastCall' = Call("approve", recommendationId, actualDiscount, FALSE)
    /\ UNCHANGED << trainedModelData, userTrainingData, idCounter, generations >>
    /\ UNCHANGED << calcVars, chatVars, widgetVars, trainingVars, pageVars >>

approveRecommendation(recommendationId, actualDiscount) ==
    /\ generations + decisionCalls < MaxCalls
    /\ LET i == FindIndex(recommendations, recommendationId)
           recs == IF i = 0 THEN recommendations
                   ELSE [ recommendations EXCEPT
                            ![i] = Approved(recommendations[i], actualDiscount) ]
       IN  /\ recommendations' = recs
           /\ decisions' =
                  PushDecision(decisions,
                               Decision(recommendationId, "approved",
                                        AppliedDiscount(recs, i, actualDiscount),
                                        decisionCalls))
    /\ decisionCalls' = decisionCalls + 1
    /\ lastCall' = Call("approve", recommendationId, actualDiscount, FALSE)
    /\ UNCHANGED << trainedModelData, userTrainingData, idCounter, generations >>
    /\ UNCHANGED << calcVars, chatVars, widgetVars, trainingVars, pageVars >>

rejectRecommendation(recommendationId) ==
    /\ generations + decisionCalls < MaxCalls
    /\ LET i == FindIndex(recommendations, recommendationId)
       IN  recommendations' =
              IF i = 0 THEN recommendations
              ELSE [ recommendations EXCEPT ![i] = Rejected(recommendations[i]) ]
    /\ decisions' =
           PushDecision(decisions,
                        Decision(recommendationId, "rejected", Undefined, decisionCalls))
    /\ decisionCalls' = decisionCalls + 1
    /\ lastCall' = Call("reject", recommendationId, Undefined, FALSE)
    /\ UNCHANGED << trainedModelData, userTrainingData, idCounter, generations >>
    /\ UNCHANGED << calcVars, chatVars, widgetVars, trainingVars, pageVars >>

\* getAllRecommendations sorts the stored list in place, newest first
getAllRecommendations ==
    /\ recommendations' = SortNewestFirst(recommendations)
    /\ UNCHANGED lastCall
    /\ UNCHANGED << decisions, trainedModelData, userTrainingData, idCounter,
                    generations, decisionCalls >>
    /\ UNCHANGED << calcVars, chatVars, widgetVars, trainingVars, pageVars >>

\* getDecisionHistory sorts the stored decisions in place, newest first
getDecisionHistory ==
    /\ decisions' = SortNewestFirst(decisions)
    /\ UNCHANGED lastCall
    /\ UNCHANGED << recommendations, trainedModelData, userTrainingData, idCounter,
                    generations, decisionCalls >>
    /\ UNCHANGED << calcVars, chatVars, widgetVars, trainingVars, pageVars >>

clearRecommendations ==
    /\ recommendations' = << >>
    /\ decisions' = << >>
    /\ decisionCalls' = 0
    /\ UNCHANGED lastCall
    /\ UNCHANGED << trainedModelData, userTrainingData, idCounter, generations >>
    /\ UNCHANGED << calcVars, chatVars, widgetVars, trainingVars, pageVars >>

\* getRecommendationStats; money in E4
getRecommendationStats ==
    LET total == Len(recommendations)
        CountOf(st) == Len(SelectSeq(recommendations, LAMBDA r : r.status = st))
        approved == CountOf("approved")
        totalPotentialSavings ==
            SumOver(SelectSeq(recommendations, LAMBDA r : r.status = "approved"),
                    "estimatedRevenueSaved")
    IN  [ total |-> total,
          approved |-> approved,
          rejected |-> CountOf("rejected"),
          pending |-> CountOf("pending"),
          approvalRate |-> IF total > 0 THEN RoundDiv(approved * 100, total) ELSE 0,
          totalPotentialSavings |-> RoundToCents(totalPotentialSavings) ]

getPendingRecommendations ==
    SelectSeq(recommendations, LAMBDA r : r.status = "pending")

EngineNext ==
    \/ \E modelData \in BOOLEAN, rawTrainingData \in TrainingSets :
          setTrainedModelData(modelData, rawTrainingData)
    \/ generateRecommendationsFromTrainingData
    \/ \E id \in CallIds, actualDiscount \in OverrideSamples :
          approveRecommendation(id, actualDiscount)
    \/ \E id \in CallIds : rejectRecommendation(id)
    \/ getAllRecommendations
    \/ getDecisionHistory
    \/ clearRecommendations

---------------------------------------------------------------------------
(* The pure functions of the discount engine, applied to drawn arguments *)

\* the ranges the arguments are drawn from
MaxHours == 25
MaxDataPoints == 6

OptimalDiscountInputs ==
    [ wastePercentage : 0..1000,        \* 0 .. 100 % in tenths
      hoursUntilExpiry : 0..MaxHours,
      dataPoints : 0..MaxDataPoints ]

CalcIdle ==
    /\ calcInput = [ wastePercentage |-> 0, hoursUntilExpiry |-> 0, dataPoints |-> 0 ]
    /\ calcOutput = Undefined

CalcInit ==
    /\ calcInput \in OptimalDiscountInputs
    /\ calcOutput = Undefined

applyCalculateOptimalDiscount ==
    /\ calcOutput = Undefined
    /\ calcOutput' = calculateOptimalDiscount(calcInput.wastePercentage,
                                              calcInput.hoursUntilExpiry,
                                              calcInput.dataPoints)
    /\ UNCHANGED << calcInput, engineVars, chatVars, widgetVars, trainingVars, pageVars >>

\* the greatest stock calculatePredictedWaste is applied to
MaxStock == 120

\* the historical pattern of the calls: 20 % waste over two records with an
\* average temperature of 20 and an average humidity of 50
PatternSample ==
    [ wasteRate |-> Frac(20, 1), dataPoints |-> 2, sumTemp |-> 40, sumHumidity |-> 100 ]

\* hours in each branch of the expiry adjustment; conditions at and above
\* the historical averages
PredictedWasteInputs ==
    [ currentStock : 0..MaxStock,
      hoursUntilExpiry : { 12, 36, 60, 80 },
      temperature : { 20, 30 },
      humidity : { 50, 65 } ]

NoPrediction ==
    [ wasteAmount |-> Undefined, wastePercentage |-> Undefined,
      confidence |-> Undefined ]

WasteInit ==
    /\ calcInput \in PredictedWasteInputs
    /\ calcOutput = NoPrediction

applyCalculatePredictedWaste ==
    /\ calcOutput = NoPrediction
    /\ calcOutput' = calculatePredictedWaste(calcInput.currentStock,
                                             calcInput.hoursUntilExpiry,
                                             PatternSample,
                                             calcInput.temperature,
                                             calcInput.humidity)
    /\ UNCHANGED << calcInput, engineVars, chatVars, widgetVars, trainingVars, pageVars >>

---------------------------------------------------------------------------
(* The conversation engine: analyzeIntent.  A string is a sequence of       *)
(* characters.                                                             *)

\* the category keyword table of analyzeIntent, in declaration order
categories ==
    <<
      [ category |-> "groceries", keywords |-> <<
          << "g", "r", "o", "c", "e", "r", "y" >>,
          << "g", "r", "o", "c", "e", "r", "i", "e", "s" >>,
          << "f", "o", "o", "d" >>,
          << "e", "a", "t" >>,
          << "c", "o", "o", "k", "i", "n", "g" >>,
          << "k", "i", "t", "c", "h", "e", "n" >>,
          << "f", "r", "e", "s", "h" >>,
          << "o", "r", "g", "a", "n", "i", "c" >>,
          << "f", "r", "u", "i", "t" >>,
          << "v", "e", "g", "e", "t", "a", "b", "l", "e" >>,
          << "m", "e", "a", "t" >>,
          << "d", "a", "i", "r", "y" >>,
          << "b", "r", "e", "a", "d" >>,
          << "m", "i", "l", "k" >>,
          << "c", "h", "e", "e", "s", "e" >>,
          << "s", "n", "a", "c", "k" >>,
          << "b", "e", "v", "e", "r", "a", "g", "e" >>,
          << "d", "r", "i", "n", "k" >>,
          << "p", "r", "o", "d", "u", "c", "e" >>,
          << "f", "r", "o", "z", "e", "n" >>,
          << "c", "a", "n", "n", "e", "d" >>,
          << "p", "a", "n", "t", "r", "y" >>,
          << "b", "r", "e", "a", "k", "f", "a", "s", "t" >>,
          << "l", "u", "n", "c", "h" >>,
          << "d", "i", "n", "n", "e", "r" >>,
          << "h", "e", "a", "l", "t", "h", "y" >>,
          << "n", "u", "t", "r", "i", "t", "i", "o", "n" >>
        >> ],
      [ category |-> "electronics", keywords |-> <<
          << "e", "l", "e", "c", "t", "r", "o", "n", "i", "c", "s" >>,
          << "e", "l", "e", "c", "t", "r", "o", "n", "i", "c" >>,
          << "p", "h", "o", "n", "e" >>,
          << "s", "m", "a", "r", "t", "p", "h", "o", "n", "e" >>,
          << "l", "a", "p", "t", "o", "p" >>,
          << "c", "o", "m", "p", "u", "t", "e", "r" >>,
          << "h", "e", "a", "d", "p", "h", "o", "n", "e", "s" >>,
          << "t", "e", "c", "h" >>,
          << "g", "a", "d", "g", "e", "t" >>,
          << "d", "e", "v", "i", "c", "e" >>,
          << "t", "a", "b", "l", "e", "t" >>,
          << "t", "v" >>,
          << "t", "e", "l", "e", "v", "i", "s", "i", "o", "n" >>,
          << "c", "a", "m", "e", "r", "a" >>,
          << "g", "a", "m", "i", "n", "g" >>,
          << "c", "o", "n", "s", "o", "l", "e" >>,
          << "s", "m", "a", "r", "t" >>,
          << "w", "i", "r", "e", "l", "e", "s", "s" >>,
          << "b", "l", "u", "e", "t", "o", "o", "t", "h" >>,
          << "c", "h", "a", "r", "g", "e", "r" >>
        >> ],
      [ category |-> "clothing", keywords |-> <<
          << "c", "l", "o", "t", "h", "i", "n", "g" >>,
          << "c", "l", "o", "t", "h", "e", "s" >>,
          << "s", "h", "i", "r", "t" >>,
          << "p", "a", "n", "t", "s" >>,
          << "d", "r", "e", "s", "s" >>,
          << "s", "h", "o", "e", "s" >>,
          << "f", "a", "s", "h", "i", "o", "n" >>,
          << "w", "e", "a", "r" >>,
          << "o", "u", "t", "f", "i", "t" >>,
          << "j", "a", "c", "k", "e", "t" >>,
          << "j", "e", "a", "n", "s" >>,
          << "s", "w", "e", "a", "t", "e", "r" >>,
          << "b", "o", "o", "t", "s" >>,
          << "s", "n", "e", "a", "k", "e", "r", "s" >>,
          << "a", "c", "c", "e", "s", "s", "o", "r", "i", "e", "s" >>,
          << "h", "a", "t" >>,
          << "b", "e", "l", "t" >>,
          << "s", "t", "y", "l", "e" >>,
          << "s", "i", "z", "e" >>,
          << "c", "o", "l", "o", "r" >>
        >> ],
      [ category |-> "home", keywords |-> <<
          << "h", "o", "m", "e" >>,
          << "h", "o", "u", "s", "e" >>,
          << "f", "u", "r", "n", "i", "t", "u", "r", "e" >>,
          << "d", "e", "c", "o", "r" >>,
          << "k", "i", "t", "c", "h", "e", "n" >>,
          << "b", "e", "d", "r", "o", "o", "m" >>,
          << "l", "i", "v", "i", "n", "g", " ", "r", "o", "o", "m" >>,
          << "a", "p", "p", "l", "i", "a", "n", "c", "e" >>,
          << "l", "a", "m", "p" >>,
          << "b", "l", "e", "n", "d", "e", "r" >>,
          << "c", "l", "e", "a", "n", "i", "n", "g" >>,
          << "o", "r", "g", "a", "n", "i", "z", "a", "t", "i", "o", "n" >>,
          << "s", "t", "o", "r", "a", "g", "e" >>,
          << "b", "a", "t", "h", "r", "o", "o", "m" >>,
          << "g", "a", "r", "d", "e", "n" >>,
          << "o", "u", "t", "d", "o", "o", "r" >>,
          << "t", "o", "o", "l", "s" >>,
          << "i", "m", "p", "r", "o", "v", "e", "m", "e", "n", "t" >>
        >> ]
    >>

\* the intent keyword table of analyzeIntent, in declaration order
\* (Object.entries lists string keys in insertion order)
intents ==
    <<
      [ intent |-> "search_product", keywords |-> <<
          << "l", "o", "o", "k", "i", "n", "g", " ", "f", "o", "r" >>,
          << "n", "e", "e", "d" >>,
          << "w", "a", "n", "t" >>,
          << "f", "i", "n", "d" >>,
          << "s", "e", "a", "r", "c", "h" >>,
          << "s", "h", "o", "w", " ", "m", "e" >>,
          << "g", "e", "t", " ", "m", "e" >>,
          << "w", "h", "e", "r", "e", " ", "c", "a", "n", " ", "i", " ", "f", "i", "n", "d" >>,
          << "d", "o", " ", "y", "o", "u", " ", "h", "a", "v", "e" >>,
          << "i", "'", "m", " ", "l", "o", "o", "k", "i", "n", "g" >>,
          << "h", "e", "l", "p", " ", "m", "e", " ", "f", "i", "n", "d" >>
        >> ],
      [ intent |-> "price_inquiry", keywords |-> <<
          << "c", "h", "e", "a", "p" >>,
          << "e", "x", "p", "e", "n", "s", "i", "v", "e" >>,
          << "b", "u", "d", "g", "e", "t" >>,
          << "a", "f", "f", "o", "r", "d", "a", "b", "l", "e" >>,
          << "c", "o", "s", "t" >>,
          << "p", "r", "i", "c", "e" >>,
          << "m", "o", "n", "e", "y" >>,
          << "u", "n", "d", "e", "r" >>,
          << "l", "e", "s", "s", " ", "t", "h", "a", "n" >>,
          << "m", "a", "x", "i", "m", "u", "m" >>,
          << "m", "i", "n", "i", "m", "u", "m" >>,
          << "r", "a", "n", "g", "e" >>,
          << "h", "o", "w", " ", "m", "u", "c", "h" >>
        >> ],
      [ intent |-> "deal_inquiry", keywords |-> <<
          << "d", "e", "a", "l" >>,
          << "d", "e", "a", "l", "s" >>,
          << "d", "i", "s", "c", "o", "u", "n", "t" >>,
          << "s", "a", "l", "e" >>,
          << "o", "f", "f", "e", "r" >>,
          << "p", "r", "o", "m", "o", "t", "i", "o", "n" >>,
          << "b", "a", "r", "g", "a", "i", "n" >>,
          << "s", "p", "e", "c", "i", "a", "l" >>,
          << "c", "l", "e", "a", "r", "a", "n", "c", "e" >>,
          << "m", "a", "r", "k", "d", "o", "w", "n" >>,
          << "r", "e", "d", "u", "c", "e", "d" >>,
          << "s", "a", "v", "i", "n", "g", "s" >>,
          << "c", "o", "u", "p", "o", "n" >>
        >> ],
      [ intent |-> "recommendation", keywords |-> <<
          << "r", "e", "c", "o", "m", "m", "e", "n", "d" >>,
          << "s", "u", "g", "g", "e", "s", "t" >>,
          << "a", "d", "v", "i", "c", "e" >>,
          << "h", "e", "l", "p" >>,
          << "w", "h", "a", "t", " ", "s", "h", "o", "u", "l", "d" >>,
          << "b", "e", "s", "t" >>,
          << "p", "o", "p", "u", "l", "a", "r" >>,
          << "t", "r", "e", "n", "d", "i", "n", "g" >>,
          << "t", "o", "p", " ", "r", "a", "t", "e", "d" >>,
          << "f", "a", "v", "o", "r", "i", "t", "e" >>,
          << "g", "o", "o", "d", " ", "c", "h", "o", "i", "c", "e" >>
        >> ],
      [ intent |-> "comparison", keywords |-> <<
          << "c", "o", "m", "p", "a", "r", "e" >>,
          << "d", "i", "f", "f", "e", "r", "e", "n", "c", "e" >>,
          << "b", "e", "t", "t", "e", "r" >>,
          << "v", "e", "r", "s", "u", "s" >>,
          << "v", "s" >>,
          << "w", "h", "i", "c", "h", " ", "o", "n", "e" >>,
          << "p", "r", "o", "s", " ", "a", "n", "d", " ", "c", "o", "n", "s" >>,
          << "s", "i", "m", "i", "l", "a", "r" >>,
          << "a", "l", "t", "e", "r", "n", "a", "t", "i", "v", "e" >>,
          << "o", "p", "t", "i", "o", "n" >>
        >> ],
      [ intent |-> "greeting", keywords |-> <<
          << "h", "i" >>,
          << "h", "e", "l", "l", "o" >>,
          << "h", "e", "y" >>,
          << "g", "o", "o", "d", " ", "m", "o", "r", "n", "i", "n", "g" >>,
          << "g", "o", "o", "d", " ", "a", "f", "t", "e", "r", "n", "o", "o", "n" >>,
          << "g", "o", "o", "d", " ", "e", "v", "e", "n", "i", "n", "g" >>,
          << "h", "o", "w", "d", "y" >>,
          << "g", "r", "e", "e", "t", "i", "n", "g", "s" >>,
          << "w", "h", "a", "t", "'", "s", " ", "u", "p" >>
        >> ],
      [ intent |-> "waste_reduction", keywords |-> <<
          << "e", "c", "o" >>,
          << "e", "n", "v", "i", "r", "o", "n", "m", "e", "n", "t" >>,
          << "w", "a", "s", "t", "e" >>,
          << "s", "u", "s", "t", "a", "i", "n", "a", "b", "l", "e" >>,
          << "g", "r", "e", "e", "n" >>,
          << "e", "x", "p", "i", "r", "i", "n", "g" >>,
          << "o", "r", "g", "a", "n", "i", "c" >>,
          << "n", "a", "t", "u", "r", "a", "l" >>,
          << "r", "e", "c", "y", "c", "l", "a", "b", "l", "e" >>,
          << "b", "i", "o", "d", "e", "g", "r", "a", "d", "a", "b", "l", "e" >>,
          << "e", "a", "r", "t", "h", " ", "f", "r", "i", "e", "n", "d", "l", "y" >>
        >> ],
      [ intent |-> "complaint", keywords |-> <<
          << "p", "r", "o", "b", "l", "e", "m" >>,
          << "i", "s", "s", "u", "e" >>,
          << "w", "r", "o", "n", "g" >>,
          << "b", "r", "o", "k", "e", "n" >>,
          << "d", "e", "f", "e", "c", "t", "i", "v", "e" >>,
          << "c", "o", "m", "p", "l", "a", "i", "n", "t" >>,
          << "d", "i", "s", "a", "p", "p", "o", "i", "n", "t", "e", "d" >>,
          << "u", "n", "s", "a", "t", "i", "s", "f", "i", "e", "d" >>,
          << "r", "e", "t", "u", "r", "n" >>,
          << "r", "e", "f", "u", "n", "d" >>
        >> ],
      [ intent |-> "compliment", keywords |-> <<
          << "g", "r", "e", "a", "t" >>,
          << "a", "w", "e", "s", "o", "m", "e" >>,
          << "e", "x", "c", "e", "l", "l", "e", "n", "t" >>,
          << "p", "e", "r", "f", "e", "c", "t" >>,
          << "a", "m", "a", "z", "i", "n", "g" >>,
          << "w", "o", "n", "d", "e", "r", "f", "u", "l" >>,
          << "f", "a", "n", "t", "a", "s", "t", "i", "c" >>,
          << "l", "o", "v", "e" >>,
          << "t", "h", "a", "n", "k", " ", "y", "o", "u" >>,
          << "t", "h", "a", "n", "k", "s" >>,
          << "h", "e", "l", "p", "f", "u", "l" >>
        >> ]
    >>

\* the sentiment lexicons
positiveWords ==
    <<
      << "g", "o", "o", "d" >>,
      << "g", "r", "e", "a", "t" >>,
      << "e", "x", "c", "e", "l", "l", "e", "n", "t" >>,
      << "l", "o", "v", "e" >>,
      << "l", "i", "k", "e" >>,
      << "a", "w", "e", "s", "o", "m", "e" >>,
      << "p", "e", "r", "f", "e", "c", "t" >>,
      << "a", "m", "a", "z", "i", "n", "g" >>
    >>

negativeWords ==
    <<
      << "b", "a", "d" >>,
      << "t", "e", "r", "r", "i", "b", "l", "e" >>,
      << "h", "a", "t", "e" >>,
      << "d", "i", "s", "l", "i", "k", "e" >>,
      << "a", "w", "f", "u", "l" >>,
      << "h", "o", "r", "r", "i", "b", "l", "e" >>,
      << "w", "o", "r", "s", "t" >>,
      << "d", "i", "s", "a", "p", "p", "o", "i", "n", "t", "e", "d" >>
    >>

\* the urgency lexicons
urgentWords ==
    <<
      << "u", "r", "g", "e", "n", "t" >>,
      << "a", "s", "a", "p" >>,
      << "i", "m", "m", "e", "d", "i", "a", "t", "e", "l", "y" >>,
      << "n", "o", "w" >>,
      << "q", "u", "i", "c", "k" >>,
      << "f", "a", "s", "t" >>,
      << "e", "m", "e", "r", "g", "e", "n", "c", "y" >>
    >>

mediumUrgencyWords ==
    <<
      << "s", "o", "o", "n" >>,
      << "t", "o", "d", "a", "y" >>,
      << "t", "h", "i", "s", " ", "w", "e", "e", "k" >>,
      << "n", "e", "e", "d" >>
    >>

\* The phrases utterances are made of: a search phrase, category words, a
\* price word, a deal word, a greeting, a price ceiling and a word that
\* matches nothing.
Vocabulary ==
    <<
      << "I", " ", "n", "e", "e", "d" >>,
      << "g", "r", "o", "c", "e", "r", "i", "e", "s" >>,
      << "c", "h", "e", "a", "p" >>,
      << "d", "e", "a", "l", "s" >>,
      << "H", "e", "l", "l", "o" >>,
      << "u", "n", "d", "e", "r", " ", "$", "2", "0" >>,
      << "l", "a", "p", "t", "o", "p" >>,
      << "x", "y", "z" >>
    >>

\* the number of phrases of an utterance
MaxWords == 2

RECURSIVE Phrases(_)
\* the utterances of n phrases, separated by a blank
Phrases(n) ==
    IF n = 1 THEN { Vocabulary[i] : i \in 1..Len(Vocabulary) }
    ELSE { u \o << " " >> \o Vocabulary[i] :
             u \in Phrases(n - 1), i \in 1..Len(Vocabulary) }

Utterances == UNION { Phrases(n) : n \in 1..MaxWords }

\* the context lists passed along: none, or one earlier utterance
ContextSamples == { << >>, << Vocabulary[1] >> }

\* the utterances of the long conversations
HistoryUtterances == { Vocabulary[5], Vocabulary[8], Vocabulary[1] }

\* further phrases of the conversations
LookingForCheapItems ==
    << "L", "o", "o", "k", "i", "n", "g", " ", "f", "o", "r", " ", "c", "h", "e", "a", "p", " ", "i", "t", "e", "m", "s" >>
LessThanFive ==
    << "l", "e", "s", "s", " ", "t", "h", "a", "n", " ", "5" >>
UnderZero ==
    << "u", "n", "d", "e", "r", " ", "$", "0" >>
Suggest ==
    << "s", "u", "g", "g", "e", "s", "t" >>

\* the utterances of the conversations with generateResponse: searches with
\* and without a category, a category alone, price ceilings, budget
\* requests, a greeting, a deal request, a request for recommendations and
\* one that matches nothing
ChatUtterances ==
    { Vocabulary[1], Vocabulary[1] \o << " " >> \o Vocabulary[2], Vocabulary[7],
      Vocabulary[6], LessThanFive, UnderZero, LookingForCheapItems, Vocabulary[3],
      Vocabulary[5], Vocabulary[4], Suggest, Vocabulary[8] }

\* String.prototype.toLowerCase, character by character
LowerChar(c) ==
    CASE c = "H" -> "h"
      [] c = "I" -> "i"
      [] c = "L" -> "l"
      [] OTHER   -> c

toLowerCase(str) == [ i \in 1..Len(str) |-> LowerChar(str[i]) ]

\* String.prototype.includes
includes(str, keyword) ==
    \E i \in 1..(Len(str) - Len(keyword) + 1) :
        \A j \in 1..Len(keyword) : str[i + j - 1] = keyword[j]

\* keywords.filter(keyword => lowerMessage.includes(keyword)).length
MatchCount(keywords, lowerMessage) ==
    Cardinality({ k \in 1..Len(keywords) : includes(lowerMessage, keywords[k]) })

\* keywords.some(keyword => str.includes(keyword))
SomeIncluded(keywords, str) ==
    \E k \in 1..Len(keywords) : includes(str, keywords[k])

\* a variant that takes the intent with the most matching keywords
BestMatchingIntent(lowerMessage, i) ==
    LET hit == { n \in 1..Len(intents) : MatchCount(intents[n].keywords, lowerMessage) > 0 }
    IN  IF hit = { } THEN 0
        ELSE CHOOSE n \in hit :
               \A m \in hit :
                  \/ MatchCount(intents[n].keywords, lowerMessage)
                        > MatchCount(intents[m].keywords, lowerMessage)
                  \/ /\ MatchCount(intents[n].keywords, lowerMessage)
                          = MatchCount(intents[m].keywords, lowerMessage)
                     /\ n <= m

RECURSIVE FirstMatchingIntent(_, _)
\* the for loop over Object.entries(intents) with its break: the index of the
\* first intent from i on with a matching keyword, 0 when there is none
FirstMatchingIntent(lowerMessage, i) ==
    IF i > Len(intents) THEN 0
    ELSE IF MatchCount(intents[i].keywords, lowerMessage) > 0 THEN i
    ELSE FirstMatchingIntent(lowerMessage, i + 1)

\* the detected intent and its confidence, in hundredths
DetectIntent(lowerMessage, context) ==
    LET n == FirstMatchingIntent(lowerMessage, 1)
    IN  IF n = 0 THEN [ intent |-> "general", confidence |-> 50 ]
        ELSE LET keywords == intents[n].keywords
                 base == Min(95, 60 + MatchCount(keywords, lowerMessage) * 10)
                 contextSupport ==
                     \E c \in 1..Len(context) :
                         SomeIncluded(keywords, toLowerCase(context[c]))
             IN  [ intent |-> intents[n].intent,
                   confidence |-> IF Len(context) > 0 /\ contextSupport
                                  THEN base + 10 ELSE base ]

\* a variant that detects no category
NoCategories(lowerMessage, i) == << >>

RECURSIVE DetectCategories(_, _)
\* the entities: the categories with a matching keyword, in table order
DetectCategories(lowerMessage, i) ==
    IF i > Len(categories) THEN << >>
    ELSE (IF MatchCount(categories[i].keywords, lowerMessage) > 0
          THEN << categories[i].category >> ELSE << >>)
         \o DetectCategories(lowerMessage, i + 1)

Contains(list, x) == \E i \in 1..Len(list) : list[i] = x

\* a variant that pushes the category whether or not it is there
PushInterest(memory, category) ==
    [ memory EXCEPT !.userInterests = Append(@, category),
                    !.preferredCategories = Append(@, category) ]

\* updateUserInterests: each list gets the category unless it has it
updateUserInterests(memory, category) ==
    [ memory EXCEPT
        !.userInterests =
            IF Contains(@, category) THEN @ ELSE Append(@, category),
        !.preferredCategories =
            IF Contains(@, category) THEN @ ELSE Append(@, category) ]

RECURSIVE UpdateAll(_, _)
UpdateAll(memory, entities) ==
    IF entities = << >> THEN memory
    ELSE UpdateAll(updateUserInterests(memory, Head(entities)), Tail(entities))

DetectSentiment(lowerMessage) ==
    LET positiveCount == MatchCount(positiveWords, lowerMessage)
        negativeCount == MatchCount(negativeWords, lowerMessage)
    IN  IF positiveCount > negativeCount THEN "positive"
        ELSE IF negativeCount > positiveCount THEN "negative"
        ELSE "neutral"

DetectUrgency(lowerMessage) ==
    IF SomeIncluded(urgentWords, lowerMessage) THEN "high"
    ELSE IF SomeIncluded(mediumUrgencyWords, lowerMessage) THEN "medium"
    ELSE "low"

Digits == << "0", "1", "2", "3", "4", "5", "6", "7", "8", "9" >>
IsDigit(c) == Contains(Digits, c)
DigitValue(c) == (CHOOSE d \in 1..10 : Digits[d] = c) - 1

\* the prefixes of the price pattern, in the order of its alternatives:
\* /under \$?(\d+)|less than \$?(\d+)|maximum \$?(\d+)|max \$?(\d+)/
PricePrefixes ==
    << << "u", "n", "d", "e", "r", " " >>,
       << "l", "e", "s", "s", " ", "t", "h", "a", "n", " " >>,
       << "m", "a", "x", "i", "m", "u", "m", " " >>,
       << "m", "a", "x", " " >> >>

StartsWithAt(str, i, prefix) ==
    /\ i + Len(prefix) - 1 <= Len(str)
    /\ \A j \in 1..Len(prefix) : str[i + j - 1] = prefix[j]

RECURSIVE ParseDigits(_, _, _)
\* parseInt of the run of digits of str that starts at i; acc is the value so far
ParseDigits(str, i, acc) ==
    IF i <= Len(str) /\ IsDigit(str[i])
    THEN ParseDigits(str, i + 1, acc * 10 + DigitValue(str[i]))
    ELSE acc

\* the number captured when an alternative matches at position i, else Undefined
PriceAt(str, i) ==
    LET ok == { p \in 1..Len(PricePrefixes) :
                  /\ StartsWithAt(str, i, PricePrefixes[p])
                  /\ LET d == i + Len(PricePrefixes[p])
                         first == IF d <= Len(str) /\ str[d] = "$" THEN d + 1 ELSE d
                     IN  first <= Len(str) /\ IsDigit(str[first]) }
    IN  IF ok = { } THEN Undefined
        ELSE LET p == CHOOSE q \in ok : \A r \in ok : q <= r
                 d == i + Len(PricePrefixes[p])
                 first == IF str[d] = "$" THEN d + 1 ELSE d
             IN  ParseDigits(str, first, 0)

\* lowerMessage.match(...): the capture of the leftmost match, else Undefined
PriceMatch(lowerMessage) ==
    LET at == { i \in 1..Len(lowerMessage) : PriceAt(lowerMessage, i) # Undefined }
    IN  IF at = { } THEN Undefined
        ELSE PriceAt(lowerMessage, CHOOSE i \in at : \A j \in at : i <= j)

NoPriceRange == [ min |-> 0, max |-> Undefined ]

EmptyMemory ==
    [ userInterests |-> << >>, preferredCategories |-> << >>,
      priceRange |-> NoPriceRange ]

ChatIdle ==
    /\ conversationMemory = EmptyMemory
    /\ analysisInput = [ message |-> << >>, context |-> << >> ]
    /\ analysis = [ intent |-> "none", entities |-> << >>, confidence |-> 0,
                    sentiment |-> "neutral", urgency |-> "low" ]
    /\ conversationHistory = << >>
    /\ totalMessages = 0
    /\ response = [ message |-> "none", products |-> << >>, suggestions |-> << >> ]

\* a variant that keeps a ceiling once one is set
KeepFirstPriceRange(memory, maxPrice) ==
    IF maxPrice # Undefined /\ memory.priceRange = NoPriceRange
    THEN [ memory EXCEPT !.priceRange = [ min |-> 0, max |-> maxPrice ] ]
    ELSE memory

\* if (priceMatch) this.conversationMemory.priceRange = { min: 0, max }
rememberPriceRange(memory, maxPrice) ==
    IF maxPrice # Undefined
    THEN [ memory EXCEPT !.priceRange = [ min |-> 0, max |-> maxPrice ] ]
    ELSE memory

\* what analyzeIntent computes from its arguments alone
Analyze(message, context) ==
    LET lowerMessage == toLowerCase(message)
        detected == DetectIntent(lowerMessage, context)
    IN  [ intent |-> detected.intent,
          entities |-> DetectCategories(lowerMessage, 1),
          confidence |-> detected.confidence,
          sentiment |-> DetectSentiment(lowerMessage),
          urgency |-> DetectUrgency(lowerMessage),
          maxPrice |-> PriceMatch(lowerMessage) ]

\* Analyze on every argument pair in use, evaluated once
AnalyzeTable ==
    [ message \in Utterances \cup ChatUtterances |-> [ context \in ContextSamples |->
        Analyze(message, context) ] ]

\* the analysis of an argument pair, from the table when it holds the pair
AnalysisOf(message, context) ==
    IF message \in DOMAIN AnalyzeTable /\ context \in ContextSamples
    THEN AnalyzeTable[message][context]
    ELSE Analyze(message, context)

\* analyzeIntent: the analysis returned and the session memory updated
analyzeIntent(message, context) ==
    LET result == AnalysisOf(message, context)
        entities == result.entities
        maxPrice == result.maxPrice
        remembered == UpdateAll(conversationMemory, entities)
    IN  /\ analysis' = [ intent |-> result.intent,
                         entities |-> entities,
                         confidence |-> result.confidence,
                         sentiment |-> result.sentiment,
                         urgency |-> result.urgency ]
        /\ conversationMemory' = rememberPriceRange(remembered, maxPrice)
        /\ analysisInput' = [ message |-> message, context |-> context ]

---------------------------------------------------------------------------
(* The conversation engine: products, suggestions and generateResponse *)

\* a product of the catalogue: price in cents; dealType "none" and discount 0
\* when the product has no deal
Product(id, category, price, dealType, discount) ==
    [ id |-> id, category |-> category, price |-> price,
      dealType |-> dealType, discount |-> discount ]

mockProducts ==
    <<
      Product(1, "groceries", 249, "flash", 40),
      Product(2, "groceries", 399, "flash", 25),
      Product(3, "groceries", 299, "flash", 35),
      Product(4, "groceries", 449, "flash", 30),
      Product(5, "groceries", 379, "waste-reduction", 20),
      Product(6, "groceries", 899, "waste-reduction", 15),
      Product(7, "groceries", 429, "waste-reduction", 25),
      Product(8, "groceries", 349, "waste-reduction", 18),
      Product(9, "electronics", 14999, "regular", 10),
      Product(10, "electronics", 69999, "regular", 5),
      Product(11, "clothing", 899, "regular", 15),
      Product(12, "home", 3499, "none", 0),
      Product(13, "home", 8999, "none", 0),
      Product(14, "clothing", 7999, "none", 0),
      Product(15, "electronics", 89999, "none", 0),
      Product(16, "home", 12999, "none", 0)
    >>

HasDeal(product) == product.dealType # "none"

\* Array.prototype.slice(0, limit)
Take(s, limit) == SubSeq(s, 1, Min(limit, Len(s)))

ProductIds(products) == [ i \in 1..Len(products) |-> products[i].id ]

\* the session has a price range (it is not null)
HasPriceRange(priceRange) == priceRange.max # Undefined

\* getPersonalizedProducts; usePriceRange is FALSE when the argument is
\* undefined
getPersonalizedProducts(category, limit, usePriceRange, priceRange) ==
    LET ofCategory == SelectSeq(mockProducts, LAMBDA p : p.category = category)
        filteredProducts ==
            IF usePriceRange
            THEN SelectSeq(ofCategory, LAMBDA p :
                     /\ p.price >= priceRange.min * 100
                     /\ p.price <= priceRange.max * 100)
            ELSE ofCategory
        dealsFirst ==
            Items(SortDescending([ i \in 1..Len(filteredProducts) |->
                      [ key |-> IF HasDeal(filteredProducts[i]) THEN 1 ELSE 0,
                        item |-> filteredProducts[i] ] ]))
    IN  ProductIds(Take(dealsFirst, limit))

\* getDealsProducts
getDealsProducts(limit) ==
    LET withDeal == SelectSeq(mockProducts, HasDeal)
        byDiscount ==
            Items(SortDescending([ i \in 1..Len(withDeal) |->
                      [ key |-> withDeal[i].discount, item |-> withDeal[i] ] ]))
    IN  ProductIds(Take(byDiscount, limit))

\* getBudgetProducts; maxPrice in dollars
getBudgetProducts(limit, maxPrice) ==
    LET affordable == SelectSeq(mockProducts, LAMBDA p : p.price <= maxPrice * 100)
        cheapestFirst ==
            Items(SortDescending([ i \in 1..Len(affordable) |->
                      [ key |-> 0 - affordable[i].price, item |-> affordable[i] ] ]))
    IN  ProductIds(Take(cheapestFirst, limit))

\* getWasteReductionProducts
getWasteReductionProducts(limit) ==
    ProductIds(Take(SelectSeq(mockProducts, LAMBDA p :
                        p.dealType \in { "waste-reduction", "flash" }),
                    limit))

RECURSIVE CategoryProducts(_, _, _)
\* the forEach of getSmartRecommendations: two products per category, from
\* category i on
CategoryProducts(preferredCategories, i, priceRange) ==
    IF i > Len(preferredCategories) THEN << >>
    ELSE getPersonalizedProducts(preferredCategories[i], 2,
                                 HasPriceRange(priceRange), priceRange)
         \o CategoryProducts(preferredCategories, i + 1, priceRange)

\* getSmartRecommendations
getSmartRecommendations(memory, limit) ==
    LET preferredCategories ==
            IF Len(memory.preferredCategories) > 0
            THEN memory.preferredCategories
            ELSE << "groceries", "electronics" >>
        found == CategoryProducts(preferredCategories, 1, memory.priceRange)
        chosen == IF Len(found) = 0 THEN getDealsProducts(limit) ELSE found
    IN  Take(chosen, limit)

\* the per-intent lists of generateContextualSuggestions, greeting's for an
\* intent without a list
baseSuggestions(intent) ==
    CASE intent = "search_product" ->
             << "Show me more options", "Compare similar items", "Filter by price",
                "Show customer reviews" >>
      [] intent = "deal_inquiry" ->
             << "Flash sales", "Clearance items", "Bundle deals", "Weekly specials" >>
      [] intent = "recommendation" ->
             << "Best sellers", "Customer favorites", "New arrivals", "Trending now" >>
      [] intent = "price_inquiry" ->
             << "Budget under $25", "Premium options", "Best value deals",
                "Price comparison" >>
      [] intent = "waste_reduction" ->
             << "Eco-friendly products", "Sustainable brands", "Organic options",
                "Recyclable items" >>
      [] OTHER ->
             << "Browse categories", "Today's deals", "Popular items",
                "Help me find something" >>

RECURSIVE EntitySuggestions(_, _)
\* the two suggestions pushed per entity, from entity i on
EntitySuggestions(entities, i) ==
    IF i > Len(entities) THEN << >>
    ELSE << "More " \o entities[i] \o " items", entities[i] \o " deals" >>
         \o EntitySuggestions(entities, i + 1)

\* generateContextualSuggestions (the sentiment argument is not used)
generateContextualSuggestions(intent, entities, memory) ==
    LET personalized ==
            IF Len(memory.preferredCategories) > 0
            THEN << "Recommended " \o memory.preferredCategories[1] >>
            ELSE << >>
    IN  Take(baseSuggestions(intent) \o EntitySuggestions(entities, 1)
                 \o personalized,
             4)

\* a ChatResponse: the message is named by its template, products is empty
\* when the response has none
ChatResponse(message, products, suggestions) ==
    [ message |-> message, products |-> products, suggestions |-> suggestions ]

NoResponse == ChatResponse("none", << >>, << >>)

\* priceRange?.max || 50
MaxPriceOrDefault(priceRange) ==
    IF HasPriceRange(priceRange) /\ priceRange.max # 0 THEN priceRange.max ELSE 50

\* the switch of generateResponse: the response for an analysis, the context
\* passed and the session memory as analyzeIntent left it
ResponseFor(result, context, memory) ==
    LET intent == result.intent
        entities == result.entities
        contextual(i) == generateContextualSuggestions(i, entities, memory)
    IN  CASE intent = "greeting" ->
                 ChatResponse("greeting", << >>,
                     << "Show me today's deals", "I need groceries",
                        "Electronics on sale", "Eco-friendly products" >>)
          [] intent = "search_product" ->
                 IF Len(entities) > 0
                 THEN ChatResponse("category",
                          getPersonalizedProducts(entities[1], 4,
                              HasPriceRange(memory.priceRange), memory.priceRange),
                          contextual(intent))
                 ELSE ChatResponse("ask category", << >>,
                          << "Groceries", "Electronics", "Clothing", "Home & Garden",
                             "Show me deals" >>)
          [] intent = "deal_inquiry" ->
                 ChatResponse("deals", getDealsProducts(4),
                     << "More flash sales", "Clearance items", "Eco-friendly deals",
                        "Category-specific deals" >>)
          [] intent = "price_inquiry" ->
                 ChatResponse("budget",
                     getBudgetProducts(4, MaxPriceOrDefault(memory.priceRange)),
                     << "More budget items", "Best value deals", "Clearance section",
                        "Bundle savings" >>)
          [] intent = "waste_reduction" ->
                 ChatResponse("eco", getWasteReductionProducts(4),
                     << "More eco deals", "Sustainable brands", "Organic products",
                        "Learn about our impact" >>)
          [] intent = "recommendation" ->
                 ChatResponse("recommendations", getSmartRecommendations(memory, 4),
                     << "More like these", "Customer favorites", "Trending items",
                        "New arrivals" >>)
          [] intent = "comparison" ->
                 ChatResponse("compare", << >>,
                     << "Compare phones", "Best vs budget options",
                        "Brand comparison", "Feature comparison" >>)
          [] intent = "complaint" ->
                 ChatResponse("complaint", << >>,
                     << "Return policy", "Contact customer service",
                        "Product replacement", "Refund information" >>)
          [] intent = "compliment" ->
                 ChatResponse("compliment", << >>,
                     << "Browse more products", "Check out deals", "Save favorites",
                        "Share with friends" >>)
          [] OTHER ->
                 IF Len(entities) > 0
                 THEN ChatResponse("found category",
                          getPersonalizedProducts(entities[1], 4, FALSE,
                                                  memory.priceRange),
                          contextual("search_product"))
                 ELSE IF Len(context) > 0
                 THEN ChatResponse("from conversation",
                          getSmartRecommendations(memory, 4),
                          << "Tell me more", "Different category", "Price range",
                             "Special offers" >>)
                 ELSE ChatResponse("be more specific", << >>, contextual(intent))

\* generateResponse (the user preferences argument is not used by the code)
generateResponse(userMessage, context) ==
    /\ conversationHistory' = Append(conversationHistory, userMessage)
    /\ totalMessages' = totalMessages + 1
    /\ analyzeIntent(userMessage, context)
    /\ response' = ResponseFor(analysis', context, conversationMemory')

\* a variant that takes the first five utterances
FirstFiveOfHistory ==
    SubSeq(conversationHistory, 1, Min(5, Len(conversationHistory)))

\* getConversationContext: conversationHistory.slice(-5)
getConversationContext ==
    SubSeq(conversationHistory, Max(1, Len(conversationHistory) - 4),
           Len(conversationHistory))

\* clearHistory: the history and the session memory are reset, the message
\* counter is not
clearHistory ==
    /\ conversationHistory' = << >>
    /\ conversationMemory' = EmptyMemory
    /\ UNCHANGED << analysisInput, analysis, totalMessages, response >>

---------------------------------------------------------------------------
(* The ChatBot component: sending a message and the delayed reply *)

\* !text.trim(): the text is empty or all blanks
IsBlank(text) == \A i \in 1..Len(text) : text[i] = " "

\* the texts sent: nothing, blanks, a greeting and a search
SendTexts == { << >>, << " ", " " >>, Vocabulary[5], Vocabulary[1] }

\* a Message of the component; reply is the ChatResponse a bot message shows
Message(type, content, isTypingMessage, reply) ==
    [ type |-> type, content |-> content, isTyping |-> isTypingMessage,
      reply |-> reply ]

UserMessages(msgs) == SelectSeq(msgs, LAMBDA m : m.type = "user")

\* the bot messages that are replies: not the welcome, not a typing indicator
BotReplies(msgs) ==
    SelectSeq(msgs, LAMBDA m : m.type = "bot" /\ ~ m.isTyping /\ m.reply.message # "none")

WidgetIdle ==
    /\ messages = << Message("bot", << >>, FALSE, NoResponse) >>
    /\ timers = { }
    /\ conversationContext = << >>
    /\ isTyping = FALSE

\* a variant in which a send cancels the completions still pending
SendCancelsPending(textToSend) ==
    IF IsBlank(textToSend)
    THEN UNCHANGED << messages, timers, conversationContext, isTyping >>
    ELSE /\ messages' = messages
                \o << Message("user", textToSend, FALSE, NoResponse),
                      Message("bot", << >>, TRUE, NoResponse) >>
         /\ isTyping' = TRUE
         /\ conversationContext' =
                SubSeq(conversationContext, Max(1, Len(conversationContext) - 3),
                       Len(conversationContext)) \o << textToSend >>
         /\ timers' = { [ id |-> Len(UserMessages(messages)) + 1,
                          textToSend |-> textToSend,
                          context |-> conversationContext ] }

\* handleSendMessage with the text to send (the argument, or the input value):
\* a blank text returns at once; otherwise the user message and a typing
\* indicator are appended and a completion is scheduled, which keeps the text
\* and the context of this render
handleSendMessage(textToSend) ==
    IF IsBlank(textToSend)
    THEN UNCHANGED << messages, timers, conversationContext, isTyping >>
    ELSE /\ messages' = messages
                \o << Message("user", textToSend, FALSE, NoResponse),
                      Message("bot", << >>, TRUE, NoResponse) >>
         /\ isTyping' = TRUE
         /\ conversationContext' =
                SubSeq(conversationContext, Max(1, Len(conversationContext) - 3),
                       Len(conversationContext)) \o << textToSend >>
         /\ timers' = timers \cup
                { [ id |-> Len(UserMessages(messages)) + 1,
                    textToSend |-> textToSend,
                    context |-> conversationContext ] }

\* the callback of setTimeout: the reply is generated, the typing indicators
\* are removed and the bot message is appended
completion(timer) ==
    /\ timer \in timers
    /\ generateResponse(timer.textToSend, timer.context)
    /\ messages' = SelectSeq(messages, LAMBDA m : ~ m.isTyping)
                      \o << Message("bot", << >>, FALSE, response') >>
    /\ isTyping' = FALSE
    /\ timers' = timers \ { timer }
    /\ UNCHANGED conversationContext

---------------------------------------------------------------------------
(* The ingestion of training batches *)

\* the value new Date(text) has: the day number, NaN for a text that is no
\* date
NaN == 0 - 2

DateValue(text) ==
    CASE text = "2024-01-01" -> 1
      [] text = "2024-01-05" -> 5
      [] OTHER -> NaN

\* a >= b on date values: false when either is NaN
DateAtLeast(a, b) == a # NaN /\ b # NaN /\ a >= b

TrainingRow(productName, purchaseDate, expiryDate, initialStock, finalStock,
            wasteAmount, temperature, humidity) ==
    [ productName |-> productName, purchaseDate |-> purchaseDate,
      expiryDate |-> expiryDate, initialStock |-> initialStock,
      finalStock |-> finalStock, wasteAmount |-> wasteAmount,
      temperature |-> temperature, humidity |-> humidity ]

MilkName == << "M", "i", "l", "k" >>

\* the rows of the batches: two that keep every rule (one at the limits), one
\* per rule broken, and one whose purchase date is no date
RowSamples ==
    { TrainingRow(MilkName, "2024-01-01", "2024-01-05", 10, 2, 3, 70, 60),
      TrainingRow(MilkName, "2024-01-01", "2024-01-05", 10, 0, 10, 0 - 20, 0),
      TrainingRow(MilkName, "2024-01-01", "2024-01-05", 10, 0, 10, 120, 100),
      TrainingRow(<< " " >>, "2024-01-01", "2024-01-05", 10, 2, 3, 70, 60),
      TrainingRow(MilkName, "", "2024-01-05", 10, 2, 3, 70, 60),
      TrainingRow(MilkName, "2024-01-05", "2024-01-05", 10, 2, 3, 70, 60),
      TrainingRow(MilkName, "2024-01-01", "2024-01-05", 10, 2, 0 - 1, 70, 60),
      TrainingRow(MilkName, "2024-01-01", "2024-01-05", 10, 2, 11, 70, 60),
      TrainingRow(MilkName, "2024-01-01", "2024-01-05", 10, 2, 3, 121, 60),
      TrainingRow(MilkName, "2024-01-01", "2024-01-05", 10, 2, 3, 0 - 21, 0 - 1),
      TrainingRow(MilkName, "2024-01-01", "2024-01-05", 10, 2, 3, 70, 101),
      TrainingRow(MilkName, "abc", "2024-01-05", 10, 2, 3, 70, 60) }

\* the batches uploaded: one row or two
BatchSamples ==
    { << r >> : r \in RowSamples } \cup { << r, q >> : r \in RowSamples, q \in RowSamples }

\* the errors validateData pushes for one row, in order
RowErrors(row, index) ==
    LET Error(rule) == << [ row |-> index, rule |-> rule ] >>
    IN  (IF IsBlank(row.productName) THEN Error("Product name is required")
         ELSE << >>)
        \o (IF row.purchaseDate = "" \/ row.expiryDate = ""
            THEN Error("Purchase and expiry dates are required") ELSE << >>)
        \o (IF DateAtLeast(DateValue(row.purchaseDate), DateValue(row.expiryDate))
            THEN Error("Expiry date must be after purchase date") ELSE << >>)
        \o (IF row.initialStock < 0 \/ row.finalStock < 0 \/ row.wasteAmount < 0
            THEN Error("Stock and waste amounts cannot be negative") ELSE << >>)
        \o (IF row.wasteAmount > row.initialStock
            THEN Error("Waste amount cannot exceed initial stock") ELSE << >>)
        \o (IF row.temperature < 0 - 20 \/ row.temperature > 120
            THEN Error("Temperature seems unrealistic") ELSE << >>)
        \o (IF row.humidity < 0 \/ row.humidity > 100
            THEN Error("Humidity must be between 0-100%") ELSE << >>)

RECURSIVE BatchErrors(_, _)
\* the forEach of validateData, from row index on
BatchErrors(data, index) ==
    IF index > Len(data) THEN << >>
    ELSE RowErrors(data[index], index) \o BatchErrors(data, index + 1)

validateData(data) ==
    LET errors == BatchErrors(data, 1)
    IN  [ valid |-> Len(errors) = 0, errors |-> errors ]

\* the rows of the uploader that keep every rule
UploaderRows ==
    { r \in RowSamples : RowErrors(r, 1) = << >> /\ DateValue(r.purchaseDate) # NaN }

\* addTrainingData
addTrainingData(stored, data) == stored \o data

TrainingIdle ==
    /\ trainingData = << >>
    /\ validationErrors = << >>
    /\ uploaded = << >>

\* Home.handleDataUpload
handleDataUpload(data) ==
    LET validation == validateData(data)
    IN  /\ uploaded' = data
        /\ IF validation.valid
           THEN /\ trainingData' = addTrainingData(trainingData, data)
                /\ validationErrors' = << >>
           ELSE /\ validationErrors' = validation.errors
                /\ UNCHANGED trainingData

\* clearTrainingData
clearTrainingData ==
    /\ trainingData' = << >>
    /\ UNCHANGED << validationErrors, uploaded >>

---------------------------------------------------------------------------
(* The DataUploader component and the DataTraining page *)

\* the page as mounted: the upload tab, nothing trained, no row shown
PageIdle ==
    /\ uploadedData = << >>
    /\ activeTab = "upload"
    /\ trainingComplete = FALSE
    /\ isTraining = FALSE
    /\ switchTimers = 0

\* DataUploader.handleFileUpload, from the rows parsed: they replace the
\* rows shown and are passed to onDataUpload
handleFileUpload(parsedData) ==
    /\ activeTab = "upload"
    /\ uploadedData' = parsedData
    /\ handleDataUpload(parsedData)
    /\ UNCHANGED << activeTab, trainingComplete, isTraining, switchTimers >>
    /\ UNCHANGED << engineVars, calcVars, chatVars, widgetVars >>

\* DataUploader.handleManualSubmit: an entry with a name and both dates is
\* put behind the rows shown, and all rows shown are passed to onDataUpload
handleManualSubmit(manualEntry) ==
    /\ activeTab = "upload"
    /\ manualEntry.productName # << >>
    /\ manualEntry.purchaseDate # ""
    /\ manualEntry.expiryDate # ""
    /\ LET newData == uploadedData \o << manualEntry >>
       IN  /\ uploadedData' = newData
           /\ handleDataUpload(newData)
    /\ UNCHANGED << activeTab, trainingComplete, isTraining, switchTimers >>
    /\ UNCHANGED << engineVars, calcVars, chatVars, widgetVars >>

\* DataUploader.removeDataRow (index from 1): the row leaves the rows shown,
\* and the rows left are passed to onDataUpload
removeDataRow(index) ==
    /\ activeTab = "upload"
    /\ index \in 1..Len(uploadedData)
    /\ LET newData == SubSeq(uploadedData, 1, index - 1)
                          \o SubSeq(uploadedData, index + 1, Len(uploadedData))
       IN  /\ uploadedData' = newData
           /\ handleDataUpload(newData)
    /\ UNCHANGED << activeTab, trainingComplete, isTraining, switchTimers >>
    /\ UNCHANGED << engineVars, calcVars, chatVars, widgetVars >>

\* DataTraining.handleTrainModel up to its await (the button is disabled
\* while training and without records): trainModel sets its 3 s timer
handleTrainModel ==
    /\ ~ isTraining
    /\ Len(trainingData) > 0
    /\ switchTimers < MaxTimers
    /\ isTraining' = TRUE
    /\ trainingComplete' = FALSE
    /\ validationErrors' = << >>
    /\ UNCHANGED << trainingData, uploaded, uploadedData, activeTab, switchTimers >>
    /\ UNCHANGED << engineVars, calcVars, chatVars, widgetVars >>

\* handleTrainModel from its await on: the promise of trainModel resolves,
\* training is complete and the auto-switch timer is set
trainModelResolves ==
    /\ isTraining
    /\ trainingComplete' = TRUE
    /\ switchTimers' = switchTimers + 1
    /\ isTraining' = FALSE
    /\ UNCHANGED << trainingVars, uploadedData, activeTab >>
    /\ UNCHANGED << engineVars, calcVars, chatVars, widgetVars >>

\* setActiveTab: the DataUploader is rendered in the upload tab only, and
\* loses its state when it is not
setActiveTab(tab) ==
    /\ activeTab' = tab
    /\ uploadedData' = IF tab = "upload" THEN uploadedData ELSE << >>

\* the callback of the auto-switch timer
autoSwitch ==
    /\ switchTimers > 0
    /\ switchTimers' = switchTimers - 1
    /\ setActiveTab("recommendations")
    /\ UNCHANGED << trainingVars, trainingComplete, isTraining >>
    /\ UNCHANGED << engineVars, calcVars, chatVars, widgetVars >>

\* a click on a tab button; that of the recommendations tab is disabled
\* until training is complete
clickTab(tab) ==
    /\ tab = "recommendations" => trainingComplete
    /\ setActiveTab(tab)
    /\ UNCHANGED << trainingVars, trainingComplete, isTraining, switchTimers >>
    /\ UNCHANGED << engineVars, calcVars, chatVars, widgetVars >>

\* DataTraining.handleClearData, confirmed (the button is shown while there
\* are records)
handleClearData ==
    /\ Len(trainingData) > 0
    /\ clearTrainingData
    /\ trainingComplete' = FALSE
    /\ activeTab' = "upload"
    /\ UNCHANGED << uploadedData, isTraining, switchTimers >>
    /\ UNCHANGED << engineVars, calcVars, chatVars, widgetVars >>

---------------------------------------------------------------------------
(* The specifications *)

\* the parts of the state an operation of one component leaves alone
Idle == CalcIdle /\ ChatIdle /\ WidgetIdle /\ TrainingIdle /\ PageIdle

\* the discount engine
Init == EngineInit /\ Idle
Next == EngineNext
Spec == Init /\ [][Next]_vars

\* calculateOptimalDiscount on drawn arguments
InitCalc ==
    EngineInit /\ CalcInit /\ ChatIdle /\ WidgetIdle /\ TrainingIdle /\ PageIdle
NextCalc == applyCalculateOptimalDiscount
SpecCalc == InitCalc /\ [][NextCalc]_vars

\* calculatePredictedWaste on drawn arguments
InitWaste ==
    EngineInit /\ WasteInit /\ ChatIdle /\ WidgetIdle /\ TrainingIdle /\ PageIdle
NextWaste == applyCalculatePredictedWaste
SpecWaste == InitWaste /\ [][NextWaste]_vars

\* analyzeIntent on drawn utterances
InitIntent == EngineInit /\ Idle
NextIntent ==
    \E message \in Utterances, context \in ContextSamples :
        /\ analyzeIntent(message, context)
        /\ UNCHANGED << conversationHistory, totalMessages, response >>
        /\ UNCHANGED << engineVars, calcVars, widgetVars, trainingVars, pageVars >>
SpecIntent == InitIntent /\ [][NextIntent]_vars

\* conversations with generateResponse and clearHistory
InitChat == EngineInit /\ Idle
Respond ==
    /\ totalMessages < MaxMessages
    /\ \E userMessage \in ChatUtterances, context \in ContextSamples :
           generateResponse(userMessage, context)
    /\ UNCHANGED << engineVars, calcVars, widgetVars, trainingVars, pageVars >>
Clear ==
    /\ clearHistory
    /\ UNCHANGED << engineVars, calcVars, widgetVars, trainingVars, pageVars >>
NextChat == Respond \/ Clear
SpecChat == InitChat /\ [][NextChat]_vars

\* long conversations of a few utterances
InitHistory == EngineInit /\ Idle
RespondAgain ==
    /\ totalMessages < MaxHistory
    /\ \E userMessage \in HistoryUtterances : generateResponse(userMessage, << >>)
    /\ UNCHANGED << engineVars, calcVars, widgetVars, trainingVars, pageVars >>
NextHistory == RespondAgain \/ Clear
SpecHistory == InitHistory /\ [][NextHistory]_vars

\* the ChatBot component: sends and the completions of their timers; a
\* timer that was set runs (setTimeout with a delay of 1 to 2.5 seconds)
InitWidget == EngineInit /\ Idle
Send ==
    /\ Len(UserMessages(messages)) < MaxSends
    /\ \E textToSend \in SendTexts : handleSendMessage(textToSend)
    /\ UNCHANGED << engineVars, calcVars, chatVars, trainingVars, pageVars >>
Complete(id) ==
    /\ \E timer \in timers : timer.id = id /\ completion(timer)
    /\ UNCHANGED << engineVars, calcVars, trainingVars, pageVars >>
NextWidget == Send \/ \E id \in 1..MaxSends : Complete(id)
\* the timer of send id leaves the pending set: under NextWidget, by its
\* completion and by nothing else
TimerRuns(id) ==
    \E timer \in timers : timer.id = id /\ timers' = timers \ { timer }
SpecWidget ==
    /\ InitWidget
    /\ [][NextWidget]_vars
    /\ \A id \in 1..MaxSends : WF_timers(TimerRuns(id))

\* the upload of training batches
InitUpload == EngineInit /\ Idle
Upload ==
    /\ Len(trainingData) < MaxRecords
    /\ \E data \in BatchSamples : handleDataUpload(data)
    /\ UNCHANGED << engineVars, calcVars, chatVars, widgetVars, pageVars >>
ClearTraining ==
    /\ clearTrainingData
    /\ UNCHANGED << engineVars, calcVars, chatVars, widgetVars, pageVars >>
NextUpload == Upload \/ ClearTraining
SpecUpload == InitUpload /\ [][NextUpload]_vars

\* the DataUploader on its own: files, manual entries and removals of rows
\* that keep every rule
NextUploader ==
    \/ /\ Len(trainingData) < MaxRecords
       /\ \E data \in BatchSamples :
             /\ \A i \in 1..Len(data) : data[i] \in UploaderRows
             /\ handleFileUpload(data)
    \/ /\ Len(trainingData) < MaxRecords
       /\ \E manualEntry \in UploaderRows : handleManualSubmit(manualEntry)
    \/ \E index \in 1..MaxRecords : removeDataRow(index)
SpecUploader == InitUpload /\ [][NextUploader]_vars

\* the DataTraining page: uploads, training, its two timers, the tabs and
\* the clearing of the data
NextPage ==
    \/ /\ Len(trainingData) < MaxRecords
       /\ \E row \in UploaderRows : handleFileUpload(<< row >>)
    \/ handleTrainModel
    \/ trainModelResolves
    \/ autoSwitch
    \/ \E tab \in { "upload", "recommendations" } : clickTab(tab)
    \/ handleClearData
SpecPage == InitUpload /\ [][NextPage]_vars

---------------------------------------------------------------------------
(* Properties of the discount engine *)

Ids(recs) == { recs[i].id : i \in 1..Len(recs) }

\* the stored recommendation with a given id (ids are never reused)
ById(recs, id) == recs[CHOOSE i \in 1..Len(recs) : recs[i].id = id]

HasStatus(recs, st) == \E i \in 1..Len(recs) : recs[i].status = st

\* the number of "approved" records the decision list holds for an id
ApprovalsOf(decs, id) ==
    Cardinality({ k \in 1..Len(decs) :
                    decs[k].recommendationId = id /\ decs[k].decision = "approved" })

\* the step is a call of approveRecommendation / rejectRecommendation /
\* generateRecommendationsFromTrainingData
ApproveStep == lastCall'.op = "approve" /\ decisionCalls' = decisionCalls + 1
RejectStep == lastCall'.op = "reject" /\ decisionCalls' = decisionCalls + 1
GenerateStep ==
    /\ lastCall'.op = "generate"
    /\ (lastCall' # lastCall \/ generations' # generations)

\* C1: a decided recommendation keeps its status: the only status changes
\* are pending -> approved and pending -> rejected.
C1_StatusDecidedOnce ==
    [][ \A id \in Ids(recommendations) \cap Ids(recommendations') :
          LET before == ById(recommendations, id).status
              after == ById(recommendations', id).status
          IN  \/ after = before
              \/ before = "pending" /\ after \in { "approved", "rejected" } ]_vars

\* C2: a second approveRecommendation call without override on the same
\* existing id leaves the status "approved" as the first did, and each of the
\* two calls adds one audit record.
C2_SecondApproveIdempotent ==
    [][ ( /\ ApproveStep
          /\ lastCall.op = "approve"
          /\ lastCall' = lastCall
          /\ lastCall.actualDiscount = Undefined
          /\ lastCall.id \in Ids(recommendations) )
        => ( /\ ById(recommendations, lastCall.id).status = "approved"
             /\ lastCall.id \in Ids(recommendations')
             /\ ById(recommendations', lastCall.id).status = "approved"
             /\ Len(decisions') = Len(decisions) + 1
             /\ ApprovalsOf(decisions, lastCall.id) >= 1
             /\ ApprovalsOf(decisions', lastCall.id)
                    = ApprovalsOf(decisions, lastCall.id) + 1 ) ]_vars

C2_Witness ==
    /\ lastCall.op = "approve"
    /\ lastCall.actualDiscount = Undefined
    /\ lastCall.id \in Ids(recommendations)
    /\ ById(recommendations, lastCall.id).status = "approved"
    /\ ApprovalsOf(decisions, lastCall.id) = 2
    /\ \A k \in 1..Len(decisions) :
          decisions[k].actualDiscountApplied
              = ById(recommendations, lastCall.id).suggestedDiscountPercentage

\* C3: every approve / reject call appends exactly one decision record, also
\* for an unknown id, which changes no recommendation; the number of records
\* is the number of such calls since the last clear; approve, reject and
\* generate never remove or alter an existing record.
C3_OneRecordPerDecisionCall ==
    /\ [](Len(decisions) = decisionCalls)
    /\ [][ /\ (ApproveStep \/ RejectStep)
              => ( /\ Len(decisions') = Len(decisions) + 1
                   /\ SubSeq(decisions', 1, Len(decisions)) = decisions
                   /\ decisions'[Len(decisions')].recommendationId = lastCall'.id
                   /\ decisions'[Len(decisions')].decision
                          = (IF lastCall'.op = "approve" THEN "approved" ELSE "rejected")
                   /\ (lastCall'.id \notin Ids(recommendations)
                          => recommendations' = recommendations) )
           /\ GenerateStep => decisions' = decisions ]_vars

C3_Witness ==
    /\ lastCall.op \in { "approve", "reject" }
    /\ lastCall.id \in UnknownIds
    /\ HasStatus(recommendations, "pending")
    /\ Len(decisions) = 2
    /\ decisions[2].recommendationId \in UnknownIds

\* C4: a successful generation stores exactly the approved and rejected
\* recommendations it found, unchanged, followed by the new batch, which is
\* all pending; no recommendation that was pending before remains.
C4_GenerateReplacesPending ==
    [][ (GenerateStep /\ ~ lastCall'.threw)
        => LET kept == SelectSeq(recommendations,
                          LAMBDA r : r.status \in { "approved", "rejected" })
               n == Len(kept)
           IN  /\ Len(recommendations') >= n
               /\ SubSeq(recommendations', 1, n) = kept
               /\ \A j \in (n + 1)..Len(recommendations') :
                     /\ recommendations'[j].status = "pending"
                     /\ recommendations'[j].id \notin Ids(recommendations) ]_vars

C4_Witness ==
    /\ lastCall = Call("generate", Undefined, Undefined, FALSE)
    /\ generations = 2
    /\ \E i \in 1..Len(recommendations) :
          /\ recommendations[i].status = "approved"
          /\ recommendations[i].timestamp = 0
    /\ \E i \in 1..Len(recommendations) :
          /\ recommendations[i].status = "pending"
          /\ recommendations[i].timestamp = 1
    /\ idCounter > Len(recommendations)

\* C5: generate called without a trained-model marker or with an empty
\* training list throws and leaves the recommendations (pending ones
\* included) and the decisions as they were.
C5_GenerateThrowsUntouched ==
    [][ (GenerateStep /\ (trainedModelData = FALSE \/ userTrainingData = << >>))
        => ( /\ lastCall'.threw
             /\ recommendations' = recommendations
             /\ decisions' = decisions ) ]_vars

C5_Witness ==
    /\ lastCall = Call("generate", Undefined, Undefined, TRUE)
    /\ HasStatus(recommendations, "pending")
    /\ decisions # << >>

\* C6: approveRecommendation(id, d) on an existing id with any override d in
\* 0..100 makes d the recommendation's discount, recomputes the discounted
\* price from d (to the cent) and records actualDiscountApplied = d.
C6_OverrideAlwaysApplied ==
    [][ ( /\ ApproveStep
          /\ lastCall'.id \in Ids(recommendations)
          /\ lastCall'.actualDiscount \in 0..100 )
        => LET d == lastCall'.actualDiscount
               r == ById(recommendations', lastCall'.id)
               exact == (r.currentPrice \div 100) * (100 - d)
           IN  /\ r.suggestedDiscountPercentage = d
               /\ r.discountedPrice - exact < 100
               /\ exact - r.discountedPrice < 100
               /\ decisions'[Len(decisions')].actualDiscountApplied = d ]_vars

\* C7: after approveRecommendation(id, d) with an override d (1..100) on an
\* existing recommendation, discountedPrice is currentPrice * (1 - d/100)
\* rounded to 2 decimals.
C7_OverridePriceRounded ==
    [][ ( /\ ApproveStep
          /\ lastCall'.id \in Ids(recommendations)
          /\ lastCall'.actualDiscount \in 1..100 )
        => LET d == lastCall'.actualDiscount
               r == ById(recommendations', lastCall'.id)
           IN  r.discountedPrice
                  = RoundDiv((r.currentPrice \div 100) * (100 - d), 100) * 100 ]_vars

\* C9: getRecommendationStats returns the total, the counts by status (which
\* add up to the total), approvalRate = round(100 * approved / total) (0 for
\* an empty list) and totalPotentialSavings = the sum of estimatedRevenueSaved
\* over the approved recommendations; every field is 0 on an empty list.
C9_StatsAreCountsAndSum ==
    LET st == getRecommendationStats
        With(status) == { i \in 1..Len(recommendations) :
                            recommendations[i].status = status }
        approvedOnes == SelectSeq(recommendations, LAMBDA r : r.status = "approved")
    IN  /\ st.total = Len(recommendations)
        /\ st.approved = Cardinality(With("approved"))
        /\ st.rejected = Cardinality(With("rejected"))
        /\ st.pending = Cardinality(With("pending"))
        /\ st.approved + st.rejected + st.pending = st.total
        /\ st.approvalRate
              = (IF st.total = 0 THEN 0
                 ELSE (200 * st.approved + st.total) \div (2 * st.total))
        /\ st.totalPotentialSavings = SumOver(approvedOnes, "estimatedRevenueSaved")
        /\ (recommendations = << >>
              => st = [ total |-> 0, approved |-> 0, rejected |-> 0, pending |-> 0,
                        approvalRate |-> 0, totalPotentialSavings |-> 0 ])

---------------------------------------------------------------------------
(* Properties of calculateOptimalDiscount *)

\* C8: calculateOptimalDiscount returns an integer in [5, 70] for every waste
\* percentage in [0, 100], every hoursUntilExpiry >= 0 and every data-point
\* count >= 0.
C8_DiscountWithinBounds ==
    calcOutput # Undefined => calcOutput \in 5..70

\* the greatest base discount, urgency and history factor together: 77
\* before the clamp
C8_Witness ==
    /\ calcInput.wastePercentage >= 600
    /\ calcInput.hoursUntilExpiry = 0
    /\ calcInput.dataPoints >= 5
    /\ calcOutput = 70

---------------------------------------------------------------------------
(* Properties of analyzeIntent *)

\* the indices of the intents with a keyword the message includes
MatchingIntents(message) ==
    { n \in 1..Len(intents) :
        MatchCount(intents[n].keywords, toLowerCase(message)) > 0 }

\* C10: analyzeIntent returns the intent declared earliest in the intent
\* table among those with a matching keyword, whatever the match counts; when
\* no intent matches, the intent is "general" with confidence 0.5.
C10_FirstMatchWins ==
    analysis.intent # "none"
    => LET hit == MatchingIntents(analysisInput.message)
       IN  IF hit = { }
           THEN analysis.intent = "general" /\ analysis.confidence = 50
           ELSE \E n \in hit :
                   /\ \A m \in hit : n <= m
                   /\ analysis.intent = intents[n].intent

\* a later intent matches more keywords than the one returned
C10_Witness ==
    /\ analysis.intent # "none"
    /\ LET lowerMessage == toLowerCase(analysisInput.message)
           hit == MatchingIntents(analysisInput.message)
       IN  \E n \in hit, m \in hit :
              /\ n < m
              /\ \A k \in hit : n <= k
              /\ MatchCount(intents[m].keywords, lowerMessage)
                     > MatchCount(intents[n].keywords, lowerMessage)
              /\ analysis.intent = intents[n].intent

\* the keywords the intent table gives an intent, the category table a category
IntentKeywords(intent) ==
    intents[CHOOSE n \in 1..Len(intents) : intents[n].intent = intent].keywords
CategoryKeywords(category) ==
    categories[CHOOSE n \in 1..Len(categories) :
                   categories[n].category = category].keywords

\* C11: an utterance that matches a search_product keyword and a groceries
\* keyword ("I need groceries") is analysed as intent search_product with
\* 'groceries' among the entities and a confidence of at least 0.6.
C11_SearchForGroceries ==
    ( /\ analysis.intent # "none"
      /\ SomeIncluded(IntentKeywords("search_product"),
                      toLowerCase(analysisInput.message))
      /\ SomeIncluded(CategoryKeywords("groceries"),
                      toLowerCase(analysisInput.message)) )
    => ( /\ analysis.intent = "search_product"
         /\ Contains(analysis.entities, "groceries")
         /\ analysis.confidence >= 60 )

C11_Witness ==
    /\ analysisInput.message = Vocabulary[1] \o << " " >> \o Vocabulary[2]
    /\ analysisInput.context = << >>
    /\ analysis.intent = "search_product"
    /\ analysis.entities = << "groceries" >>
    /\ analysis.confidence = 70

---------------------------------------------------------------------------
(* Properties of generateResponse and the session *)

\* the step is a generateResponse call / a clearHistory call
RespondStep == totalMessages' = totalMessages + 1
ClearStep ==
    /\ totalMessages' = totalMessages
    /\ conversationHistory' = << >>
    /\ conversationHistory # << >>

\* C12: every response of generateResponse carries at most 4 suggestions.
C12_AtMostFourSuggestions == Len(response.suggestions) <= 4

NoDuplicates(list) ==
    \A i \in 1..Len(list), j \in 1..Len(list) : list[i] = list[j] => i = j

\* the elements of list that are not in seen, each once, in order
NewIn(list, seen) ==
    SelectSeq(list, LAMBDA x : ~ Contains(seen, x))

\* C13: the session interest lists hold no category twice; a generateResponse
\* call appends to them the categories it detects for the first time, in the
\* order detected, and removes or reorders nothing; clearHistory empties
\* them.
C13_InterestsGrowInOrder ==
    /\ [](/\ NoDuplicates(conversationMemory.preferredCategories)
          /\ NoDuplicates(conversationMemory.userInterests)
          /\ conversationMemory.userInterests
                = conversationMemory.preferredCategories)
    /\ [][ /\ RespondStep
              => conversationMemory'.preferredCategories
                    = conversationMemory.preferredCategories
                        \o NewIn(analysis'.entities,
                                 conversationMemory.preferredCategories)
           /\ ClearStep
              => /\ conversationMemory'.preferredCategories = << >>
                 /\ conversationMemory'.userInterests = << >> ]_vars

\* electronics was detected first, groceries second, electronics again
C13_Witness ==
    /\ conversationHistory
          = << Vocabulary[7], Vocabulary[1] \o << " " >> \o Vocabulary[2],
               Vocabulary[7] >>
    /\ conversationMemory.preferredCategories = << "electronics", "groceries" >>
    /\ conversationMemory.userInterests = << "electronics", "groceries" >>

\* the price ceiling an utterance of the conversations names, Undefined when
\* it names none
CeilingNamed(message) ==
    CASE message = Vocabulary[6] -> 20
      [] message = LessThanFive -> 5
      [] message = UnderZero -> 0
      [] OTHER -> Undefined

\* C14: a generateResponse call whose utterance names a ceiling N sets
\* priceRange to {min 0, max N}; a call whose utterance names none leaves
\* priceRange as it is; clearHistory resets it to null.
C14_LastCeilingWins ==
    [][ /\ RespondStep
           => conversationMemory'.priceRange
                 = (IF CeilingNamed(analysisInput'.message) # Undefined
                    THEN [ min |-> 0, max |-> CeilingNamed(analysisInput'.message) ]
                    ELSE conversationMemory.priceRange)
        /\ ClearStep => conversationMemory'.priceRange = NoPriceRange ]_vars

\* "under $20", then "less than 5", then an utterance without a ceiling
C14_Witness ==
    /\ conversationHistory = << Vocabulary[6], LessThanFive, Vocabulary[8] >>
    /\ conversationMemory.priceRange = [ min |-> 0, max |-> 5 ]

C18_CheapMeansBudgetList ==
    ( /\ analysis.intent # "none"
      /\ response.message # "none"
      /\ SomeIncluded(IntentKeywords("price_inquiry"),
                      toLowerCase(analysisInput.message)) )
    => ( /\ response.message = "budget"
         /\ response.products
               = getBudgetProducts(4, MaxPriceOrDefault(conversationMemory.priceRange)) )

---------------------------------------------------------------------------
(* Properties of the ingestion of training batches *)

\* the validation rules a training record is to keep
KeepsRules(row) ==
    /\ ~ IsBlank(row.productName)
    /\ row.initialStock >= 0 /\ row.finalStock >= 0 /\ row.wasteAmount >= 0
    /\ row.wasteAmount <= row.initialStock
    /\ DateValue(row.purchaseDate) # NaN
    /\ DateValue(row.expiryDate) # NaN
    /\ DateValue(row.expiryDate) > DateValue(row.purchaseDate)
    /\ row.humidity >= 0 /\ row.humidity <= 100
    /\ row.temperature >= 0 - 20 /\ row.temperature <= 120

\* C16: a batch with a row that breaks a validation rule adds no row to the
\* training set and reports an error; every record of the training set keeps
\* all the rules.
C16_BatchAllOrNothing ==
    /\ [](\A i \in 1..Len(trainingData) : KeepsRules(trainingData[i]))
    /\ [][ ( /\ uploaded' # uploaded
             /\ \E i \in 1..Len(uploaded') : ~ KeepsRules(uploaded'[i]) )
           => ( /\ trainingData' = trainingData
                /\ validationErrors' # << >> ) ]_vars

---------------------------------------------------------------------------
(* Properties of the ChatBot component *)

Pending(id) == \E timer \in timers : timer.id = id

\* C17: every send of a non-blank text schedules one completion, also while
\* an earlier one is pending; a scheduled completion is removed only by
\* running; it runs eventually, calls generateResponse once with its text and
\* appends one bot reply; when no completion is pending the bot replies are
\* as many as the sends.
C17_EverySendIsAnswered ==
    /\ [](timers = { }
             => Len(BotReplies(messages)) = Len(UserMessages(messages)))
    /\ [][ /\ Len(UserMessages(messages')) > Len(UserMessages(messages))
              => /\ Len(UserMessages(messages')) = Len(UserMessages(messages)) + 1
                 /\ timers \subseteq timers'
                 /\ Cardinality(timers') = Cardinality(timers) + 1
           /\ timers' # timers /\ timers' \subseteq timers
              => \E timer \in timers :
                    /\ timers' = timers \ { timer }
                    /\ totalMessages' = totalMessages + 1
                    /\ conversationHistory'
                          = conversationHistory \o << timer.textToSend >>
                    /\ Len(BotReplies(messages')) = Len(BotReplies(messages)) + 1 ]_vars
    /\ \A id \in 1..MaxSends : Pending(id) ~> ~ Pending(id)

\* two texts were sent before any reply, the second was answered first, and
\* both replies are there
C17_Witness ==
    /\ timers = { }
    /\ Len(messages) >= 5
    /\ messages[2].type = "user"
    /\ messages[3].type = "user"
    /\ messages[2].content # messages[3].content
    /\ conversationHistory = << messages[3].content, messages[2].content >>
    /\ Len(BotReplies(messages)) = 2

---------------------------------------------------------------------------
(* Properties of the pure functions of the discount engine *)

\* the stock multiplier, in tenths: over 100 units 1.2, else over 50 units
\* 1.1, else none
StockLadder(currentStock) ==
    IF currentStock > 100 THEN 12 ELSE IF currentStock > 50 THEN 11 ELSE 10

C20_BaseDiscountLadder ==
    ( /\ calcOutput # Undefined
      /\ calcInput.hoursUntilExpiry > 24
      /\ calcInput.dataPoints < 5 )
    => calcOutput = ( IF calcInput.wastePercentage >= 600 THEN 50
                      ELSE IF calcInput.wastePercentage >= 400 THEN 35
                      ELSE IF calcInput.wastePercentage >= 250 THEN 25
                      ELSE IF calcInput.wastePercentage >= 150 THEN 15
                      ELSE 10 )

\* exactly 60 % gives 50
C20_Witness ==
    /\ calcInput.wastePercentage = 600
    /\ calcInput.hoursUntilExpiry > 24
    /\ calcInput.dataPoints < 5
    /\ calcOutput = 50

---------------------------------------------------------------------------
(* Further properties of the discount engine *)

\* the rows of the training data with the product's name, whatever the case
RowsOf(data, productName) ==
    SelectSeq(data, LAMBDA d : ToLowerCase(d.productName) = ToLowerCase(productName))

\* C21: every recommendation of a generated batch is of a product whose
\* historical waste rate is over 5 % and has a predicted waste over 10 % or
\* at most 24 hours until expiry; a product that fails this gets none.
C21_OnlyRiskyProductsRecommended ==
    [][ (GenerateStep /\ ~ lastCall'.threw)
        => \A j \in 1..Len(recommendations') :
              recommendations'[j].status = "pending"
              => LET r == recommendations'[j]
                     rows == RowsOf(userTrainingData, r.productName)
                 IN  /\ SumOver(rows, "wasteAmount") * 100
                            > 5 * SumOver(rows, "initialStock")
                     /\ (r.predictedWastePercentage > 100 \/ r.hoursUntilExpiry <= 24) ]_vars

\* a batch with Milk (20 %) in it, without Rice (2 %) and without Bread (6 %,
\* drawn with 77 hours left and a predicted waste of 6 %)
C21_Witness ==
    /\ lastCall = Call("generate", Undefined, Undefined, FALSE)
    /\ Len(userTrainingData) > 0
    /\ { recommendations[j].productName : j \in 1..Len(recommendations) } = { "Milk" }

\* C26: every stored recommendation has a suggestedDiscountPercentage from 5
\* to 70, after any calls of generate, approve (with or without an override)
\* and reject.
C26_StoredDiscountWithinBounds ==
    \A i \in 1..Len(recommendations) :
       /\ recommendations[i].suggestedDiscountPercentage >= 5
       /\ recommendations[i].suggestedDiscountPercentage <= 70

\* the step is a query (getAllRecommendations, getDecisionHistory): no call
\* is recorded and both lists keep their lengths
QueryStep ==
    /\ lastCall' = lastCall
    /\ generations' = generations
    /\ Len(recommendations') = Len(recommendations)
    /\ Len(decisions') = Len(decisions)

\* C27: a query leaves the stored recommendation list and the stored
\* decision list as they are, order included, and with them the list
\* getPendingRecommendations returns.
C27_QueriesReadOnly ==
    [][ QueryStep
        => /\ recommendations' = recommendations
           /\ decisions' = decisions ]_vars

\* C30: approveRecommendation and rejectRecommendation change no stored
\* recommendation but the one with the id passed, and rejectRecommendation
\* changes nothing of that one but its status.
C30_DecisionTouchesOneRecommendation ==
    [][ (ApproveStep \/ RejectStep)
        => /\ Len(recommendations') = Len(recommendations)
           /\ \A i \in 1..Len(recommendations) :
                 /\ recommendations[i].id # lastCall'.id
                    => recommendations'[i] = recommendations[i]
                 /\ RejectStep
                    => recommendations'[i]
                          = [ recommendations[i] EXCEPT
                                !.status = recommendations'[i].status ] ]_vars

\* a batch of two, one rejected by the last call, the other still pending
C30_Witness ==
    /\ lastCall.op = "reject"
    /\ Len(recommendations) >= 2
    /\ \E i, j \in 1..Len(recommendations) :
          /\ recommendations[i].id = lastCall.id
          /\ recommendations[i].status = "rejected"
          /\ recommendations[j].status = "pending"

---------------------------------------------------------------------------
(* Further properties of generateResponse *)

\* the product of the catalogue with an id
ProductOf(id) == mockProducts[CHOOSE i \in 1..Len(mockProducts) : mockProducts[i].id = id]

\* ids is the list of the top deals: products with a deal, by discount
\* descending, none with a greater discount left out
IsTopDeals(ids, limit) ==
    LET withDeal == { i \in 1..Len(mockProducts) : HasDeal(mockProducts[i]) }
    IN  /\ Len(ids) = Min(limit, Cardinality(withDeal))
        /\ \A k \in 1..Len(ids) : HasDeal(ProductOf(ids[k]))
        /\ \A k \in 1..(Len(ids) - 1) :
              ProductOf(ids[k]).discount >= ProductOf(ids[k + 1]).discount
        /\ \A i \in withDeal :
              \/ \E k \in 1..Len(ids) : ids[k] = mockProducts[i].id
              \/ \A k \in 1..Len(ids) :
                    ProductOf(ids[k]).discount >= mockProducts[i].discount

\* ids is a blend over the categories: products of these categories only, at
\* most two of each, those with a deal before those without
IsBlend(ids, preferred) ==
    /\ \A k \in 1..Len(ids) : Contains(preferred, ProductOf(ids[k]).category)
    /\ \A k \in 1..Len(ids) :
          Cardinality({ j \in 1..Len(ids) :
                          ProductOf(ids[j]).category = ProductOf(ids[k]).category }) <= 2
    /\ \A j, k \in 1..Len(ids) :
          ( /\ j < k
            /\ ProductOf(ids[j]).category = ProductOf(ids[k]).category
            /\ HasDeal(ProductOf(ids[k])) )
          => HasDeal(ProductOf(ids[j]))

\* C22: the response to a recommendation request holds up to 2
\* deal-prioritised products per remembered preferred category; when the
\* session remembers no preferred category it holds the top-deals list.
C22_SmartBlendOrTopDeals ==
    [][ (RespondStep /\ response'.message = "recommendations")
        => IF Len(conversationMemory'.preferredCategories) = 0
           THEN IsTopDeals(response'.products, 4)
           ELSE IsBlend(response'.products, conversationMemory'.preferredCategories) ]_vars

\* C23: the products of a price_inquiry response given while a price ceiling
\* N is set (0 included) cost at most N and are in non-decreasing order of
\* price.
C23_BudgetWithinCeiling ==
    [][ ( /\ RespondStep
          /\ response'.message = "budget"
          /\ HasPriceRange(conversationMemory'.priceRange) )
        => LET ids == response'.products
               N == conversationMemory'.priceRange.max
           IN  /\ \A k \in 1..Len(ids) : ProductOf(ids[k]).price <= N * 100
               /\ \A k \in 1..(Len(ids) - 1) :
                     ProductOf(ids[k]).price <= ProductOf(ids[k + 1]).price ]_vars

---------------------------------------------------------------------------
(* Further properties of the ChatBot component *)

\* C28: while a sent message has not got its reply, the message list holds
\* a typing indicator and isTyping is true.
C28_TypingWhilePending ==
    timers # { }
    => /\ isTyping
       /\ \E k \in 1..Len(messages) : messages[k].isTyping

\* C29: replies come in the order of the sends: generateResponse is called
\* for the texts in the order they were sent (the history of the engine is a
\* prefix of the texts sent), and a completion that runs is that of the
\* oldest send still pending.
C29_RepliesInSendOrder ==
    /\ [](/\ Len(conversationHistory) <= Len(UserMessages(messages))
          /\ \A k \in 1..Len(conversationHistory) :
                conversationHistory[k] = UserMessages(messages)[k].content)
    /\ [][ \A id \in 1..MaxSends :
             (Pending(id) /\ ~ Pending(id)')
             => \A other \in 1..MaxSends : Pending(other) => id <= other ]_vars

---------------------------------------------------------------------------
(* Properties of the DataTraining page and the DataUploader *)

\* C24: while the recommendations tab is the active tab, trainingComplete is
\* true and the training set is not empty.
C24_RecommendationsTabNeedsModel ==
    activeTab = "recommendations"
    => /\ trainingComplete
       /\ Len(trainingData) > 0

\* C25: after valid file uploads, manual entries and removals of rows, the
\* training set of the service is the list of rows the uploader shows.
C25_StoredIsShown == trainingData = uploadedData

=============================================================================
